---- MODULE Spec2Model ----
(***************************************************************************)
(* PhoTawrr album/photo organisation engine: AlbumService, PhotoService    *)
(* and the Album/Photo models, running against the persistence gateway     *)
(* (DatabaseService: execute/get/all/beginTransaction over one shared SQL  *)
(* connection).                                                            *)
(*                                                                         *)
(* Every service method is an async function; it is modelled as a task     *)
(* whose steps are the segments between two awaits.  One step is one       *)
(* gateway call together with the synchronous code that leads to it.       *)
(*                                                                         *)
(* Modelling notes                                                         *)
(*  - strings that the code formats, parses or compares (date periods) are *)
(*    sequences of character codes, built and compared as the code does;   *)
(*  - the gateway answers as its contract says (changes = rows affected,   *)
(*    lastInsertRowid = AUTOINCREMENT id, one transaction per connection); *)
(*  - the schema declares foreign keys but the program never switches      *)
(*    their enforcement on or off: both outcomes are modelled              *)
(*    (foreignKeys is chosen in Init);                                     *)
(*  - created_at / date_added are modelled by the insertion sequence       *)
(*    number (the row id), so two rows never tie on creation time.         *)
(***************************************************************************)
EXTENDS Integers, Sequences, FiniteSets, TLC

(***************************************************************************)
(* Bounds of the model                                                     *)
(***************************************************************************)
MaxTasks == 2
MaxBatch == 2
MaxReorderLen == 2
\* number of operations the host invokes in a run of each specification
MaxCatalogOps == 3
MaxReorderOps == 3
MaxRaceOps == 2
MaxObserveOps == 3
MaxOps == 3

Tasks == 1..MaxTasks

(***************************************************************************)
(* Strings as character codes                                              *)
(***************************************************************************)
DASH == 45
ZERO == 48
UNDATED == <<117, 110, 100, 97, 116, 101, 100>>

IsDigit(c) == c >= 48 /\ c <= 57

RECURSIVE DecStr(_)
\* String(n) for a non-negative integer n
DecStr(n) == IF n < 10 THEN <<ZERO + n>> ELSE DecStr(n \div 10) \o <<ZERO + (n % 10)>>

\* s.padStart(2, '0')
PadStart2(s) == IF Len(s) < 2 THEN <<ZERO>> \o s ELSE s

RECURSIVE ParseInt(_)
\* parseInt(s, 10) of a string of digits
ParseInt(s) == IF Len(s) = 0 THEN 0
               ELSE 10 * ParseInt(SubSeq(s, 1, Len(s) - 1)) + (s[Len(s)] - ZERO)

RECURSIVE StrLess(_, _)
\* a < b on JavaScript strings (code unit order)
StrLess(a, b) ==
  IF Len(b) = 0 THEN FALSE
  ELSE IF Len(a) = 0 THEN TRUE
  ELSE IF a[1] # b[1] THEN a[1] < b[1]
  ELSE StrLess(Tail(a), Tail(b))

StrGreater(a, b) == StrLess(b, a)

\* index of the first '-' of s (0 when there is none)
DashPos(s) == IF \E i \in 1..Len(s) : s[i] = DASH
              THEN CHOOSE i \in 1..Len(s) : s[i] = DASH /\ \A j \in 1..(i - 1) : s[j] # DASH
              ELSE 0

\* const [year, month] = s.split('-')
SplitYear(s) == IF DashPos(s) = 0 THEN s ELSE SubSeq(s, 1, DashPos(s) - 1)
SplitMonth(s) ==
  IF DashPos(s) = 0 THEN <<>>
  ELSE LET rest == SubSeq(s, DashPos(s) + 1, Len(s))
       IN IF DashPos(rest) = 0 THEN rest ELSE SubSeq(rest, 1, DashPos(rest) - 1)

(***************************************************************************)
(* Timestamps (Date objects)                                               *)
(***************************************************************************)
NoDate == [kind |-> "none", y |-> 0, m |-> 0]
InvalidDate == [kind |-> "invalid", y |-> 0, m |-> 0]
MkDate(y, m) == [kind |-> "date", y |-> y, m |-> m]

CurrentYear == 2025

MonthNames == <<"January", "February", "March", "April", "May", "June",
                "July", "August", "September", "October", "November", "December">>

(***************************************************************************)
(* Album model (src/models/Album.js)                                       *)
(***************************************************************************)
NoName == [text |-> "", year |-> <<>>]
UndatedName == [text |-> "Undated Photos", year |-> <<>>]

NoAlbum == [id |-> 0, name |-> NoName, datePeriod |-> <<>>, displayOrder |-> 0,
            photoCount |-> 0, coverPhotoId |-> 0, createdAt |-> 0]

\* variant: the month number is used as the index into monthNames
generateNameFromDatePeriod_noOffset(datePeriod) ==
  IF datePeriod = UNDATED THEN UndatedName
  ELSE LET monthIndex == ParseInt(SplitMonth(datePeriod))
       IN [text |-> IF monthIndex \in 0..11 THEN MonthNames[monthIndex + 1] ELSE "undefined",
           year |-> SplitYear(datePeriod)]

\* Album.generateNameFromDatePeriod: `${monthNames[monthIndex]} ${year}`
generateNameFromDatePeriod(datePeriod) ==
  IF datePeriod = UNDATED THEN UndatedName
  ELSE LET monthIndex == ParseInt(SplitMonth(datePeriod)) - 1
       IN [text |-> IF monthIndex \in 0..11 THEN MonthNames[monthIndex + 1] ELSE "undefined",
           year |-> SplitYear(datePeriod)]

\* /^(\d{4}-\d{2}|undated)$/
datePeriodPattern(p) ==
  \/ p = UNDATED
  \/ /\ Len(p) = 7
     /\ \A i \in 1..4 : IsDigit(p[i])
     /\ p[5] = DASH
     /\ \A i \in 6..7 : IsDigit(p[i])

hasCoverPhoto(album) == album.coverPhotoId > 0

isUndatedAlbum(album) == album.datePeriod = UNDATED

\* variant: the month range is not checked
AlbumValidate_anyMonth(album) ==
  /\ album.name.text # ""
  /\ Len(album.datePeriod) > 0
  /\ datePeriodPattern(album.datePeriod)
  /\ album.datePeriod # UNDATED =>
       LET yearNum == ParseInt(SplitYear(album.datePeriod))
       IN ~(yearNum < 1900 \/ yearNum > CurrentYear + 1)
  /\ album.displayOrder >= 0
  /\ album.photoCount >= 0

\* Album.validate(): the checks that depend on the album's data
AlbumValidate(album) ==
  /\ album.name.text # ""
  /\ Len(album.datePeriod) > 0
  /\ datePeriodPattern(album.datePeriod)
  /\ album.datePeriod # UNDATED =>
       LET monthNum == ParseInt(SplitMonth(album.datePeriod))
           yearNum == ParseInt(SplitYear(album.datePeriod))
       IN /\ ~(monthNum < 1 \/ monthNum > 12)
          /\ ~(yearNum < 1900 \/ yearNum > CurrentYear + 1)
  /\ album.displayOrder >= 0
  /\ album.photoCount >= 0

\* the sequences over set S that list every element once
Orderings(S) == {s \in [1..Cardinality(S) -> S] : \A i, j \in 1..Cardinality(S) : s[i] = s[j] => i = j}

\* ORDER BY display_order ASC, created_at DESC
ListOrderBefore(a, b) ==
  \/ a.displayOrder < b.displayOrder
  \/ a.displayOrder = b.displayOrder /\ a.createdAt > b.createdAt

SortAlbums(rows) ==
  CHOOSE s \in Orderings(rows) : \A i, j \in 1..Len(s) : i < j => ListOrderBefore(s[i], s[j])

\* variant: the dated albums are scanned oldest period first
SortByPeriodDesc_ascending(rows) ==
  LET dated == {a \in rows : ~isUndatedAlbum(a)}
  IN CHOOSE s \in Orderings(dated) :
       \A i, j \in 1..Len(s) : i < j =>
          \/ StrLess(s[i].datePeriod, s[j].datePeriod)
          \/ s[i].datePeriod = s[j].datePeriod /\ ListOrderBefore(s[i], s[j])

\* existingAlbums.filter(not undated).sort(datePeriod descending)
SortByPeriodDesc(rows) ==
  LET dated == {a \in rows : ~isUndatedAlbum(a)}
  IN CHOOSE s \in Orderings(dated) :
       \A i, j \in 1..Len(s) : i < j =>
          \/ StrGreater(s[i].datePeriod, s[j].datePeriod)
          \/ s[i].datePeriod = s[j].datePeriod /\ ListOrderBefore(s[i], s[j])

SetMax(S, default) == IF S = {} THEN default ELSE CHOOSE x \in S : \A y \in S : y <= x

RECURSIVE InsertScan(_, _, _, _)
\* the for-loop of calculateDisplayOrder from position k on
InsertScan(sorted, datePeriod, k, insertOrder) ==
  IF k > Len(sorted) THEN insertOrder
  ELSE IF StrGreater(datePeriod, sorted[k].datePeriod) THEN sorted[k].displayOrder
  ELSE InsertScan(sorted, datePeriod, k + 1, sorted[k].displayOrder + 1)

\* variant: every new album is given order 0
calculateDisplayOrder_alwaysZero(existingAlbums, datePeriod) == 0

\* Album.calculateDisplayOrder(existingAlbums, datePeriod)
calculateDisplayOrder(existingAlbums, datePeriod) ==
  IF datePeriod = UNDATED
  THEN SetMax({a.displayOrder : a \in existingAlbums} \cup {-1}, -1) + 1
  ELSE InsertScan(SortByPeriodDesc(existingAlbums), datePeriod, 1, 0)

(***************************************************************************)
(* Photo model (src/lib/errors.js, class Photo)                            *)
(***************************************************************************)
NoPhoto == [id |-> 0, fileName |-> "", albumId |-> 0, dateTaken |-> NoDate,
            width |-> 0, height |-> 0, thumbnail |-> FALSE]

\* Photo.fromFile followed by the Photo constructor: width: (options.width || null) || 0
PhotoFromFile(file, albumId, meta) ==
  [id |-> 0, fileName |-> file.name, albumId |-> albumId, dateTaken |-> meta.dateTaken,
   width |-> meta.width, height |-> meta.height, thumbnail |-> FALSE]

\* Photo.validate(): width and height are numbers (never null after the
\* constructor), so each must be > 0; the file name must not be empty
PhotoValidate(photo) ==
  /\ photo.fileName # ""
  /\ ~(photo.width <= 0)
  /\ ~(photo.height <= 0)

(***************************************************************************)
(* Files offered to importPhotos                                           *)
(***************************************************************************)
maxSize == 52428800
allowedTypes == {"image/jpeg", "image/png", "image/heic", "image/tiff"}

MkFile(name, ext, type, size, lastModified) ==
  [name |-> name, ext |-> ext, type |-> type, size |-> size, lastModified |-> lastModified]

FileAug == MkFile("a.jpg", "jpg", "image/jpeg", 1024, MkDate(2025, 8))
FileSep == MkFile("c.heic", "heic", "image/heic", 1024, MkDate(2025, 9))
FileAugB == MkFile("b.jpg", "jpg", "image/jpeg", 2048, MkDate(2025, 8))
FileNoDate == MkFile("n.jpg", "jpg", "image/jpeg", 1024, NoDate)
FileOld == MkFile("o.jpg", "jpg", "image/jpeg", 1024, MkDate(1899, 12))
FilePdf == MkFile("d.pdf", "pdf", "application/pdf", 1024, MkDate(2025, 8))
FileEmpty == MkFile("e.jpg", "jpg", "image/jpeg", 0, MkDate(2025, 8))
FileBig == MkFile("f.jpg", "jpg", "image/jpeg", maxSize + 1, MkDate(2025, 8))

FileInputs == {FileAug, FileSep, FileNoDate, FileOld, FilePdf, FileEmpty, FileBig}

BatchInputs == UNION {[1..n -> FileInputs] : n \in 0..MaxBatch}

DateInputs == {NoDate, InvalidDate, MkDate(2025, 8), MkDate(2025, 9)}

\* PhotoService.validatePhotoFile(file): the returned object
validatePhotoFile(file) ==
  LET errors == (IF file.type \notin allowedTypes THEN {"Unsupported file type"} ELSE {})
                \cup (IF file.size > maxSize THEN {"File too large"} ELSE {})
                \cup (IF file.size = 0 THEN {"File is empty"} ELSE {})
  IN [isValid |-> errors = {}, errors |-> errors]

\* variant: validatePhotoFile read as if it returned a boolean
ValidationTruthy_boolean(validation) == validation.isValid

\* JavaScript truthiness of the object validatePhotoFile returns, as tested
\* by `if (!this.validatePhotoFile(file))` in importPhotos
ValidationTruthy(validation) == TRUE

\* PhotoService.extractMetadata(file); loaded is whether the image decodes.
\* extractExifData never yields a DateTime, so the date is file.lastModified
\* when the image loads and stays null when it does not.
extractMetadata(file, loaded) ==
  IF loaded
  THEN [dateTaken |-> file.lastModified, width |-> 100, height |-> 100]
  ELSE [dateTaken |-> NoDate, width |-> 0, height |-> 0]

\* PhotoService.generateThumbnail(filePath) with a string path: the path
\* keeps the file's extension and must match /\.(jpg|jpeg|png|gif|bmp|webp)$/i
generateThumbnailOk(file) == file.ext \in {"jpg", "jpeg", "png", "gif", "bmp", "webp"}

\* the error message tests of importPhotos' catch block:
\* error instanceof ImportError && error.message.includes('Invalid file type')
RethrowsInvalidFileType(reason) == reason = "Invalid file type"

(***************************************************************************)
(* The relational store behind the gateway                                 *)
(***************************************************************************)
EmptyDb == [albums |-> {}, photos |-> {}, albumSeq |-> 0, photoSeq |-> 0]
NoTx == [open |-> FALSE, snap |-> EmptyDb]

AlbumIds(d) == {a.id : a \in d.albums}
PhotoIds(d) == {p.id : p \in d.photos}
PhotosOf(d, albumId) == {p \in d.photos : p.albumId = albumId}

SqlOk(d, changes, lastId) == [ok |-> TRUE, db |-> d, changes |-> changes, lastId |-> lastId]
SqlFail(d) == [ok |-> FALSE, db |-> d, changes |-> 0, lastId |-> 0]

\* variant: the lookup finds no row
SelectAlbumByPeriod_noRow(d, datePeriod) == NoAlbum

\* SELECT * FROM albums WHERE date_period = ?  (first row)
SelectAlbumByPeriod(d, datePeriod) ==
  LET rows == {a \in d.albums : a.datePeriod = datePeriod}
  IN IF rows = {} THEN NoAlbum ELSE CHOOSE a \in rows : \A b \in rows : a.id <= b.id

\* SELECT * FROM albums WHERE id = ?
SelectAlbumById(d, id) ==
  IF id \in AlbumIds(d) THEN CHOOSE a \in d.albums : a.id = id ELSE NoAlbum

\* SELECT COUNT(*) FROM photos WHERE album_id = ?
CountPhotos(d, albumId) == Cardinality(PhotosOf(d, albumId))

\* variant: the insert makes room by pushing the albums at or after the new
\* position one place down
SqlInsertAlbum_shiftsOthers(d, album) ==
  LET id == d.albumSeq + 1
      row == [album EXCEPT !.id = id, !.createdAt = id]
      shifted == {IF a.displayOrder >= album.displayOrder
                  THEN [a EXCEPT !.displayOrder = @ + 1] ELSE a : a \in d.albums}
  IN SqlOk([d EXCEPT !.albums = shifted \cup {row}, !.albumSeq = id], 1, id)

\* INSERT INTO albums (...): date_period carries no uniqueness constraint
SqlInsertAlbum(d, album) ==
  LET id == d.albumSeq + 1
      row == [album EXCEPT !.id = id, !.createdAt = id]
  IN SqlOk([d EXCEPT !.albums = @ \cup {row}, !.albumSeq = id], 1, id)

\* INSERT INTO photos (...)
SqlInsertPhoto(d, photo, fk) ==
  IF fk /\ photo.albumId \notin AlbumIds(d) THEN SqlFail(d)
  ELSE LET id == d.photoSeq + 1
       IN SqlOk([d EXCEPT !.photos = @ \cup {[photo EXCEPT !.id = id]}, !.photoSeq = id], 1, id)

\* variant: the statement reports its row count but moves no photo
SqlMovePhotos_nothingMoved(d, toId, fromId, fk) ==
  SqlOk(d, Cardinality(PhotosOf(d, fromId)), 0)

\* UPDATE photos SET album_id = ? WHERE album_id = ?
SqlMovePhotos(d, toId, fromId, fk) ==
  LET rows == PhotosOf(d, fromId)
  IN IF fk /\ rows # {} /\ toId \notin AlbumIds(d) THEN SqlFail(d)
     ELSE SqlOk([d EXCEPT !.photos = {IF p \in rows THEN [p EXCEPT !.albumId = toId] ELSE p : p \in @}],
                Cardinality(rows), 0)

\* variant: positions counted from 1
SqlSetDisplayOrder_fromOne(d, id, order) ==
  SqlOk([d EXCEPT !.albums = {IF a.id = id THEN [a EXCEPT !.displayOrder = order + 1] ELSE a : a \in @}],
        IF id \in AlbumIds(d) THEN 1 ELSE 0, 0)

\* UPDATE albums SET display_order = ? WHERE id = ?
SqlSetDisplayOrder(d, id, order) ==
  SqlOk([d EXCEPT !.albums = {IF a.id = id THEN [a EXCEPT !.displayOrder = order] ELSE a : a \in @}],
        IF id \in AlbumIds(d) THEN 1 ELSE 0, 0)

\* UPDATE albums SET photo_count = ? WHERE id = ?
SqlSetPhotoCount(d, id, count) ==
  SqlOk([d EXCEPT !.albums = {IF a.id = id THEN [a EXCEPT !.photoCount = count] ELSE a : a \in @}],
        IF id \in AlbumIds(d) THEN 1 ELSE 0, 0)

\* UPDATE albums SET cover_photo_id = ? WHERE id = ?
SqlSetCover(d, id, photoId, fk) ==
  IF fk /\ id \in AlbumIds(d) /\ photoId # 0 /\ photoId \notin PhotoIds(d) THEN SqlFail(d)
  ELSE SqlOk([d EXCEPT !.albums = {IF a.id = id THEN [a EXCEPT !.coverPhotoId = photoId] ELSE a : a \in @}],
             IF id \in AlbumIds(d) THEN 1 ELSE 0, 0)

\* DELETE FROM albums WHERE id = ?   (photos.album_id ... ON DELETE CASCADE,
\* albums.cover_photo_id REFERENCES photos(id) when foreign keys are enforced)
SqlDeleteAlbum(d, id, fk) ==
  LET gone == IF fk /\ id \in AlbumIds(d) THEN PhotosOf(d, id) ELSE {}
      albumsLeft == {a \in d.albums : a.id # id}
  IN IF \E a \in albumsLeft : \E p \in gone : a.coverPhotoId = p.id THEN SqlFail(d)
     ELSE SqlOk([d EXCEPT !.albums = albumsLeft, !.photos = @ \ gone],
                IF id \in AlbumIds(d) THEN 1 ELSE 0, 0)

\* DELETE FROM photos WHERE id = ?
SqlDeletePhoto(d, id, fk) ==
  IF fk /\ id \in PhotoIds(d) /\ \E a \in d.albums : a.coverPhotoId = id THEN SqlFail(d)
  ELSE SqlOk([d EXCEPT !.photos = {p \in @ : p.id # id}],
             IF id \in PhotoIds(d) THEN 1 ELSE 0, 0)

\* date_taken DESC, date_added DESC: NULL sorts last
DateKey(ts) == IF ts.kind = "date" THEN ts.y * 100 + ts.m ELSE 0

\* SELECT id FROM photos WHERE album_id = ? ORDER BY date_taken DESC, date_added DESC LIMIT 1
SelectCoverCandidate(d, albumId) ==
  LET rows == PhotosOf(d, albumId)
  IN IF rows = {} THEN 0
     ELSE (CHOOSE p \in rows : \A q \in rows :
             \/ DateKey(p.dateTaken) > DateKey(q.dateTaken)
             \/ DateKey(p.dateTaken) = DateKey(q.dateTaken) /\ p.id >= q.id).id

(***************************************************************************)
(* State                                                                   *)
(***************************************************************************)
VARIABLES
  db,           \* the in-memory SQL database of the one shared connection
  tx,           \* the connection's transaction: open flag and BEGIN-time image
  image,        \* the database export last saved to IndexedDB
  foreignKeys,  \* whether the engine enforces the declared foreign keys
  gateway,      \* the DatabaseService object: connection present, isInitialized
  concurrent,   \* whether the host invokes operations while others are pending
  ops,          \* number of operations invoked so far
  limit,        \* number of operations the host invokes in this run
  task          \* the pending async calls and their local variables

vars == <<db, tx, image, foreignKeys, gateway, concurrent, ops, limit, task>>

\* execute(): a write statement that ran is followed by saveToIndexedDB, which
\* stores an export of the whole database; a statement that threw saves nothing
Saved(r) == IF r.ok THEN r.db ELSE image

\* what a getAllAlbums call saw of a reorderAlbums transaction in progress
NoObs == [during |-> FALSE, before |-> {}, ids |-> <<>>]

NoResult == [totalFiles |-> 0, importedCount |-> 0, failedCount |-> 0, errors |-> <<>>]

IdleTask ==
  [op |-> "idle", pc |-> "idle", status |-> "idle", err |-> "none", pre |-> EmptyDb,
   files |-> <<>>, idx |-> 0, result |-> NoResult, log |-> <<>>, metaOk |-> FALSE,
   meta |-> extractMetadata(FileAug, FALSE),
   photoDate |-> NoDate, datePeriod |-> <<>>, albumName |-> NoName, album |-> NoAlbum, ret |-> "none",
   photo |-> NoPhoto, count |-> 0,
   albumId |-> 0, targetAlbumId |-> 0, givenTarget |-> 0, photoCount |-> 0,
   albumIds |-> <<>>, i |-> 0, newOrder |-> 0, photoId |-> 0, rows |-> <<>>, retval |-> FALSE,
   method |-> "none", ready |-> FALSE, again |-> FALSE,
   obs |-> NoObs]

\* new DatabaseService(): this.db = null, this.isInitialized = false
Fresh == [open |-> FALSE, isInitialized |-> FALSE]
\* a DatabaseService whose initialization check passes
Ready == [open |-> TRUE, isInitialized |-> TRUE]

\* DatabaseService.ensureInitialized: TRUE when it does not throw
ensureInitialized(g) == ~(~g.isInitialized \/ ~g.open)

InitStore ==
  /\ db = EmptyDb
  /\ image = EmptyDb
  /\ tx = NoTx
  /\ foreignKeys \in BOOLEAN
  /\ ops = 0
  /\ task = [t \in Tasks |-> IdleTask]

\* the services are constructed over a gateway that answers their calls
InitCommon == InitStore /\ gateway = Ready

\* operations invoked while others are still pending
Init == InitCommon /\ concurrent = TRUE /\ limit = MaxOps

\* the host may invoke an operation on a free slot; when it awaits every
\* call before the next one, only one slot is ever used
Free(t) == task[t].pc \in {"idle", "done"}

CanStart(t) ==
  /\ ops < limit
  /\ Free(t)
  /\ \A u \in Tasks : u < t => ~Free(u)
  /\ concurrent \/ t = 1

Begun(op) == [IdleTask EXCEPT !.op = op, !.status = "running", !.pre = db]

\* the call settles: resolved (status "returned") or rejected with an error
Settle(tk, status) == [tk EXCEPT !.pc = "done", !.status = status]

(***************************************************************************)
(* importPhotos: bookkeeping of the per-file try/catch                     *)
(***************************************************************************)
CurFile(tk) == tk.files[tk.idx]

LogEntry(tk, outcome, reason) ==
  [name |-> CurFile(tk).name, valid |-> validatePhotoFile(CurFile(tk)).isValid,
   metaOk |-> tk.metaOk, thumbOk |-> tk.photo.thumbnail, photoId |-> tk.photo.id,
   outcome |-> outcome, reason |-> reason]

\* variant: the failure is counted but no error entry is pushed
RecordFailure_noEntry(result, file, reason) == [result EXCEPT !.failedCount = @ + 1]

\* catch (error) { result.failedCount++; result.errors.push({fileName, error}) }
RecordFailure(result, file, reason) ==
  [result EXCEPT !.failedCount = @ + 1,
                 !.errors = Append(@, [fileName |-> file.name, error |-> reason])]

\* result.importedCount++
RecordSuccess(result) == [result EXCEPT !.importedCount = @ + 1]

NextFile(tk) ==
  [tk EXCEPT !.idx = @ + 1, !.pc = "imp_validate", !.metaOk = FALSE, !.photo = NoPhoto,
             !.album = NoAlbum, !.count = 0]

\* the catch block of the per-file try, then the next iteration of the loop
ImportFileFailed(tk, reason) ==
  LET tk1 == [tk EXCEPT !.result = RecordFailure(@, CurFile(tk), reason),
                        !.log = Append(@, LogEntry(tk, "failed", reason))]
  IN IF RethrowsInvalidFileType(reason) THEN Settle(tk1, "ImportError") ELSE NextFile(tk1)

\* importSinglePhoto returned: count the file and go on with the next one
ImportFileDone(tk) ==
  NextFile([tk EXCEPT !.result = RecordSuccess(@),
                      !.log = Append(@, LogEntry(tk, "imported", "none"))])

(***************************************************************************)
(* Errors thrown out of getOrCreateAlbumForDate / createAlbum              *)
(***************************************************************************)
Raise(tk, kind, message) ==
  CASE tk.op = "import" -> ImportFileFailed(tk, "AlbumError")
    [] tk.op = "createAlbum" -> Settle([tk EXCEPT !.err = message], kind)
    [] OTHER -> Settle(tk, "AlbumError")

\* the album is handed back to the caller of getOrCreateAlbumForDate / createAlbum
Resume(tk, album) ==
  IF tk.ret \in {"goc_done", "ca_done"}
  THEN Settle([tk EXCEPT !.album = album], "returned")
  ELSE [tk EXCEPT !.album = album, !.pc = tk.ret]

\* variant: the month is not padded to two digits
DatePeriodOf_unpadded(photoDate) ==
  IF photoDate.kind # "date" THEN UNDATED
  ELSE DecStr(photoDate.y) \o <<DASH>> \o DecStr(photoDate.m)

\* datePeriod of getOrCreateAlbumForDate: `${year}-${month}` or 'undated'
DatePeriodOf(photoDate) ==
  IF photoDate.kind # "date" THEN UNDATED
  ELSE DecStr(photoDate.y) \o <<DASH>> \o PadStart2(DecStr(photoDate.m))

\* name.trim()
Trim(name) == IF name.text = " " THEN [name EXCEPT !.text = ""] ELSE name

(***************************************************************************)
(* AlbumService.getOrCreateAlbumForDate and createAlbum                    *)
(***************************************************************************)
GetOrCreateStart(t, photoDate) ==
  /\ CanStart(t)
  /\ task' = [task EXCEPT ![t] = [Begun("getOrCreate") EXCEPT
                 !.photoDate = photoDate, !.pc = "goc_lookup", !.ret = "goc_done"]]
  /\ ops' = ops + 1
  /\ UNCHANGED <<db, image, tx, foreignKeys, gateway, concurrent, limit>>

\* let album = await this.getAlbumByDatePeriod(datePeriod)
GocLookup(t) ==
  /\ task[t].pc = "goc_lookup"
  /\ LET tk == task[t]
         datePeriod == DatePeriodOf(tk.photoDate)
         albumName == generateNameFromDatePeriod(datePeriod)
         album == SelectAlbumByPeriod(db, datePeriod)
         tk1 == [tk EXCEPT !.datePeriod = datePeriod, !.albumName = albumName]
     IN task' = [task EXCEPT ![t] =
                   IF album # NoAlbum THEN Resume(tk1, album) ELSE [tk1 EXCEPT !.pc = "ca_check"]]
  /\ UNCHANGED <<db, image, tx, foreignKeys, gateway, concurrent, ops, limit>>

CreateAlbumStart(t, datePeriod, name) ==
  /\ CanStart(t)
  /\ task' = [task EXCEPT ![t] =
       IF Len(datePeriod) = 0 \/ name.text = ""
       THEN Settle([Begun("createAlbum") EXCEPT !.datePeriod = datePeriod, !.albumName = name,
                                                !.err = "Date period and name are required"],
                   "ValidationError")
       ELSE [Begun("createAlbum") EXCEPT !.datePeriod = datePeriod, !.albumName = name,
                                         !.pc = "ca_check", !.ret = "ca_done"]]
  /\ ops' = ops + 1
  /\ UNCHANGED <<db, image, tx, foreignKeys, gateway, concurrent, limit>>

\* createAlbum: const existingAlbum = await this.getAlbumByDatePeriod(datePeriod)
CaCheck(t) ==
  /\ task[t].pc = "ca_check"
  /\ LET tk == task[t]
     IN task' = [task EXCEPT ![t] =
                   IF SelectAlbumByPeriod(db, tk.datePeriod) # NoAlbum
                   THEN Raise(tk, "AlbumError", "Album already exists")
                   ELSE [tk EXCEPT !.pc = "ca_list"]]
  /\ UNCHANGED <<db, image, tx, foreignKeys, gateway, concurrent, ops, limit>>

\* createAlbum: getAllAlbums, calculateDisplayOrder, new Album, validate
CaList(t) ==
  /\ task[t].pc = "ca_list"
  /\ LET tk == task[t]
         album == [NoAlbum EXCEPT !.name = Trim(tk.albumName), !.datePeriod = tk.datePeriod,
                                  !.displayOrder = calculateDisplayOrder(db.albums, tk.datePeriod)]
     IN task' = [task EXCEPT ![t] =
                   IF ~AlbumValidate(album) THEN Raise(tk, "AlbumError", "Invalid album data")
                   ELSE [tk EXCEPT !.album = album, !.pc = "ca_insert"]]
  /\ UNCHANGED <<db, image, tx, foreignKeys, gateway, concurrent, ops, limit>>

\* createAlbum: INSERT INTO albums; album.id = insertResult.lastInsertRowid
CaInsert(t) ==
  /\ task[t].pc = "ca_insert"
  /\ LET tk == task[t]
         r == SqlInsertAlbum(db, tk.album)
     IN /\ db' = r.db
        /\ image' = Saved(r)
        /\ task' = [task EXCEPT ![t] = Resume(tk, [tk.album EXCEPT !.id = r.lastId, !.createdAt = r.lastId])]
  /\ UNCHANGED <<tx, foreignKeys, gateway, concurrent, ops, limit>>

(***************************************************************************)
(* PhotoService.importPhotos / importSinglePhoto                           *)
(***************************************************************************)
ImportStart(t, files) ==
  /\ CanStart(t)
  /\ task' = [task EXCEPT ![t] =
       IF Len(files) = 0
       THEN Settle([Begun("import") EXCEPT !.files = files], "returned")
       ELSE [Begun("import") EXCEPT !.files = files, !.idx = 1, !.pc = "imp_validate",
                                    !.result = [NoResult EXCEPT !.totalFiles = Len(files)]]]
  /\ ops' = ops + 1
  /\ UNCHANGED <<db, image, tx, foreignKeys, gateway, concurrent, limit>>

\* head of the for-loop: the two validations, or the return after the last file
ImportValidate(t) ==
  /\ task[t].pc = "imp_validate"
  /\ LET tk == task[t]
     IN task' = [task EXCEPT ![t] =
          IF tk.idx > Len(tk.files) THEN Settle(tk, "returned")
          ELSE LET validation == validatePhotoFile(CurFile(tk))
               IN IF ~ValidationTruthy(validation) THEN ImportFileFailed(tk, "Invalid file type")
                  ELSE IF ~validation.isValid THEN ImportFileFailed(tk, "Invalid file")
                  ELSE [tk EXCEPT !.pc = "imp_extract"]]
  /\ UNCHANGED <<db, image, tx, foreignKeys, gateway, concurrent, ops, limit>>

\* const metadata = await this.extractMetadata(file)
ImportExtract(t) ==
  /\ task[t].pc = "imp_extract"
  /\ \E loaded \in BOOLEAN :
       LET tk == task[t]
           meta == extractMetadata(CurFile(tk), loaded)
       IN task' = [task EXCEPT ![t] = [tk EXCEPT !.meta = meta, !.metaOk = loaded,
                      !.photoDate = meta.dateTaken, !.pc = "goc_lookup", !.ret = "imp_thumb"]]
  /\ UNCHANGED <<db, image, tx, foreignKeys, gateway, concurrent, ops, limit>>

\* variant: a thumbnail failure is thrown out of importSinglePhoto
ImportThumb_failureThrown(t) ==
  /\ task[t].pc = "imp_thumb"
  /\ LET tk == task[t]
         photo == PhotoFromFile(CurFile(tk), tk.album.id, tk.meta)
     IN task' = [task EXCEPT ![t] =
          IF generateThumbnailOk(CurFile(tk))
          THEN [tk EXCEPT !.photo = [photo EXCEPT !.thumbnail = TRUE], !.pc = "imp_insert"]
          ELSE ImportFileFailed([tk EXCEPT !.photo = photo], "ThumbnailError")]
  /\ UNCHANGED <<db, image, tx, foreignKeys, gateway, concurrent, ops, limit>>

\* Photo.fromFile; photo.thumbnailData = await this.generateThumbnail(photo.filePath)
ImportThumb(t) ==
  /\ task[t].pc = "imp_thumb"
  /\ LET tk == task[t]
         photo == PhotoFromFile(CurFile(tk), tk.album.id, tk.meta)
     IN task' = [task EXCEPT ![t] = [tk EXCEPT
                   !.photo = [photo EXCEPT !.thumbnail = generateThumbnailOk(CurFile(tk))],
                   !.pc = "imp_insert"]]
  /\ UNCHANGED <<db, image, tx, foreignKeys, gateway, concurrent, ops, limit>>

\* photo.validate(); INSERT INTO photos (the statement may fail in the store)
ImportInsert(t) ==
  /\ task[t].pc = "imp_insert"
  /\ \E storageOk \in BOOLEAN :
       LET tk == task[t]
           r == SqlInsertPhoto(db, tk.photo, foreignKeys)
       IN IF ~PhotoValidate(tk.photo)
          THEN /\ task' = [task EXCEPT ![t] = ImportFileFailed(tk, "Invalid photo data")]
               /\ db' = db
               /\ image' = image
          ELSE IF ~storageOk \/ ~r.ok
          THEN /\ task' = [task EXCEPT ![t] = ImportFileFailed(tk, "DatabaseError")]
               /\ db' = db
               /\ image' = image
          ELSE /\ task' = [task EXCEPT ![t] = [tk EXCEPT !.photo.id = r.lastId, !.pc = "imp_count"]]
               /\ db' = r.db
               /\ image' = r.db
  /\ UNCHANGED <<tx, foreignKeys, gateway, concurrent, ops, limit>>

\* PhotoService.updateAlbumPhotoCount: SELECT COUNT(*)
ImportCount(t) ==
  /\ task[t].pc = "imp_count"
  /\ task' = [task EXCEPT ![t].count = CountPhotos(db, task[t].album.id), ![t].pc = "imp_setcount"]
  /\ UNCHANGED <<db, image, tx, foreignKeys, gateway, concurrent, ops, limit>>

\* PhotoService.updateAlbumPhotoCount: UPDATE albums SET photo_count
ImportSetCount(t) ==
  /\ task[t].pc = "imp_setcount"
  /\ db' = SqlSetPhotoCount(db, task[t].album.id, task[t].count).db
  /\ image' = SqlSetPhotoCount(db, task[t].album.id, task[t].count).db
  /\ task' = [task EXCEPT ![t].pc = "imp_cover"]
  /\ UNCHANGED <<tx, foreignKeys, gateway, concurrent, ops, limit>>

\* if (!album.hasCoverPhoto()) albumService.updateAlbumCover(album.id, photo.id)
\* -> updateAlbum: getAlbumById
ImportCover(t) ==
  /\ task[t].pc = "imp_cover"
  /\ LET tk == task[t]
     IN task' = [task EXCEPT ![t] =
          IF hasCoverPhoto(tk.album) THEN ImportFileDone(tk)
          ELSE IF SelectAlbumById(db, tk.album.id) = NoAlbum THEN ImportFileFailed(tk, "AlbumError")
          ELSE [tk EXCEPT !.pc = "imp_setcover"]]
  /\ UNCHANGED <<db, image, tx, foreignKeys, gateway, concurrent, ops, limit>>

\* updateAlbum: UPDATE albums SET cover_photo_id
ImportSetCover(t) ==
  /\ task[t].pc = "imp_setcover"
  /\ LET tk == task[t]
         r == SqlSetCover(db, tk.album.id, tk.photo.id, foreignKeys)
     IN /\ db' = r.db
        /\ image' = Saved(r)
        /\ task' = [task EXCEPT ![t] =
             IF r.ok THEN ImportFileDone(tk) ELSE ImportFileFailed(tk, "DatabaseError")]
  /\ UNCHANGED <<tx, foreignKeys, gateway, concurrent, ops, limit>>

(***************************************************************************)
(* Transactions of the shared connection (DatabaseService.beginTransaction)*)
(***************************************************************************)
\* album ids a caller may pass: 0 (no id), ids handed out so far, one unknown id
IdInputs == 0..(db.albumSeq + 1)
PhotoIdInputs == 0..(db.photoSeq + 1)


\* execute('BEGIN TRANSACTION') succeeds unless a transaction is already open
CanBegin == ~tx.open
Opened == [open |-> TRUE, snap |-> db]

\* the error the operation rejects with after its rollback
Thrown(tk) == IF tk.op = "merge" THEN "DatabaseError" ELSE tk.err

\* await transaction.commit(): execute('COMMIT'), then saveToIndexedDB; return true
TxCommit(t) ==
  /\ task[t].pc = "commit"
  /\ IF tx.open
     THEN /\ tx' = NoTx
          /\ image' = db
          /\ task' = [task EXCEPT ![t] = Settle([task[t] EXCEPT !.retval = TRUE], "returned")]
     ELSE /\ tx' = tx
          /\ image' = image
          /\ task' = [task EXCEPT ![t].err = "DatabaseError", ![t].pc = "rollback"]
  /\ UNCHANGED <<db, foreignKeys, gateway, concurrent, ops, limit>>

\* variant: the rollback leaves the writes of the transaction in place
TxRollback_keepsWrites(t) ==
  /\ task[t].pc = "rollback"
  /\ db' = db
  /\ tx' = NoTx
  /\ task' = [task EXCEPT ![t] = Settle(task[t], IF tx.open THEN Thrown(task[t]) ELSE "DatabaseError")]
  /\ UNCHANGED <<image, foreignKeys, gateway, concurrent, ops, limit>>

\* catch (error) { await transaction.rollback(); throw error }
TxRollback(t) ==
  /\ task[t].pc = "rollback"
  /\ IF tx.open
     THEN /\ db' = tx.snap
          /\ tx' = NoTx
          /\ task' = [task EXCEPT ![t] = Settle(task[t], Thrown(task[t]))]
     ELSE /\ UNCHANGED <<db, tx>>
          /\ task' = [task EXCEPT ![t] = Settle(task[t], "DatabaseError")]
  /\ UNCHANGED <<image, foreignKeys, gateway, concurrent, ops, limit>>

(***************************************************************************)
(* AlbumService.reorderAlbums                                              *)
(***************************************************************************)
ReorderInputs == UNION {[1..n -> IdInputs] : n \in 0..MaxReorderLen}

ReorderStart(t, albumIds) ==
  /\ CanStart(t)
  /\ LET tk == [Begun("reorder") EXCEPT !.albumIds = albumIds]
     IN IF Len(albumIds) = 0 \/ \E k \in 1..Len(albumIds) : albumIds[k] <= 0
        THEN /\ task' = [task EXCEPT ![t] = Settle(tk, "ValidationError")]
             /\ tx' = tx
        ELSE IF ~CanBegin
        THEN /\ task' = [task EXCEPT ![t] = Settle(tk, "DatabaseError")]
             /\ tx' = tx
        ELSE /\ task' = [task EXCEPT ![t] = [tk EXCEPT !.i = 1, !.pc = "reo_update"]]
             /\ tx' = Opened
  /\ ops' = ops + 1
  /\ UNCHANGED <<db, image, foreignKeys, gateway, concurrent, limit>>

\* variant: the album that held position i trades places with albumIds[i]
ReorderUpdate_swaps(t) ==
  /\ task[t].pc = "reo_update"
  /\ LET tk == task[t]
         id == tk.albumIds[tk.i]
         r == SqlSetDisplayOrder(db, id, tk.i - 1)
         old == IF id \in AlbumIds(db) THEN SelectAlbumById(db, id).displayOrder ELSE tk.i - 1
         swapped == [r.db EXCEPT !.albums =
                       {IF a.id # id /\ a.displayOrder = tk.i - 1
                        THEN [a EXCEPT !.displayOrder = old] ELSE a : a \in @}]
     IN /\ db' = swapped
        /\ image' = swapped
        /\ task' = [task EXCEPT ![t] =
             IF r.changes = 0 THEN [tk EXCEPT !.err = "AlbumError", !.pc = "rollback"]
             ELSE IF tk.i = Len(tk.albumIds) THEN [tk EXCEPT !.pc = "commit"]
             ELSE [tk EXCEPT !.i = @ + 1]]
  /\ UNCHANGED <<tx, foreignKeys, gateway, concurrent, ops, limit>>

\* UPDATE albums SET display_order = i WHERE id = albumIds[i]  (i counts from 0)
ReorderUpdate(t) ==
  /\ task[t].pc = "reo_update"
  /\ LET tk == task[t]
         r == SqlSetDisplayOrder(db, tk.albumIds[tk.i], tk.i - 1)
     IN /\ db' = r.db
        /\ image' = Saved(r)
        /\ task' = [task EXCEPT ![t] =
             IF r.changes = 0 THEN [tk EXCEPT !.err = "AlbumError", !.pc = "rollback"]
             ELSE IF tk.i = Len(tk.albumIds) THEN [tk EXCEPT !.pc = "commit"]
             ELSE [tk EXCEPT !.i = @ + 1]]
  /\ UNCHANGED <<tx, foreignKeys, gateway, concurrent, ops, limit>>

(***************************************************************************)
(* AlbumService.updateAlbumOrder                                           *)
(***************************************************************************)
MaxOrder == 2

\* display orders a caller may pass: a negative one and 0..MaxOrder
OrderInputs == -1..MaxOrder

\* variant: a negative display order is not rejected
UpdateOrderStart_anyOrder(t, albumId, newOrder) ==
  /\ CanStart(t)
  /\ LET tk == [Begun("updateAlbumOrder") EXCEPT !.albumId = albumId, !.newOrder = newOrder]
     IN task' = [task EXCEPT ![t] =
          IF albumId <= 0
          THEN Settle([tk EXCEPT !.err = "Invalid album ID"], "ValidationError")
          ELSE [tk EXCEPT !.pc = "uao_update"]]
  /\ ops' = ops + 1
  /\ UNCHANGED <<db, image, tx, foreignKeys, gateway, concurrent, limit>>

\* the two argument checks of updateAlbumOrder
UpdateOrderStart(t, albumId, newOrder) ==
  /\ CanStart(t)
  /\ LET tk == [Begun("updateAlbumOrder") EXCEPT !.albumId = albumId, !.newOrder = newOrder]
     IN task' = [task EXCEPT ![t] =
          IF albumId <= 0
          THEN Settle([tk EXCEPT !.err = "Invalid album ID"], "ValidationError")
          ELSE IF newOrder < 0
          THEN Settle([tk EXCEPT !.err = "Invalid display order"], "ValidationError")
          ELSE [tk EXCEPT !.pc = "uao_update"]]
  /\ ops' = ops + 1
  /\ UNCHANGED <<db, image, tx, foreignKeys, gateway, concurrent, limit>>

\* UPDATE albums SET display_order = newOrder WHERE id = albumId;
\* changes === 0 -> AlbumError('Album not found'), else return true
UpdateOrderExec(t) ==
  /\ task[t].pc = "uao_update"
  /\ LET tk == task[t]
         r == SqlSetDisplayOrder(db, tk.albumId, tk.newOrder)
     IN /\ db' = r.db
        /\ image' = Saved(r)
        /\ task' = [task EXCEPT ![t] =
             IF r.changes = 0 THEN Settle([tk EXCEPT !.err = "Album not found"], "AlbumError")
             ELSE Settle([tk EXCEPT !.retval = TRUE], "returned")]
  /\ UNCHANGED <<tx, foreignKeys, gateway, concurrent, ops, limit>>

(***************************************************************************)
(* AlbumService.updateAlbumPhotoCount(targetAlbumId) inside a transaction  *)
(***************************************************************************)
\* getAlbumPhotoCount: SELECT COUNT(*)
UpdCount(t) ==
  /\ task[t].pc = "upd_count"
  /\ task' = [task EXCEPT ![t].count = CountPhotos(db, task[t].targetAlbumId),
                          ![t].pc = "upd_getalbum"]
  /\ UNCHANGED <<db, image, tx, foreignKeys, gateway, concurrent, ops, limit>>

\* updateAlbum: const album = await this.getAlbumById(albumId)
UpdGetAlbum(t) ==
  /\ task[t].pc = "upd_getalbum"
  /\ task' = [task EXCEPT ![t] =
       IF SelectAlbumById(db, task[t].targetAlbumId) = NoAlbum
       THEN [task[t] EXCEPT !.err = "AlbumError", !.pc = "rollback"]
       ELSE [task[t] EXCEPT !.pc = "upd_setcount"]]
  /\ UNCHANGED <<db, image, tx, foreignKeys, gateway, concurrent, ops, limit>>

\* updateAlbum: UPDATE albums SET photo_count = ?
UpdSetCount(t) ==
  /\ task[t].pc = "upd_setcount"
  /\ db' = SqlSetPhotoCount(db, task[t].targetAlbumId, task[t].count).db
  /\ image' = SqlSetPhotoCount(db, task[t].targetAlbumId, task[t].count).db
  /\ task' = [task EXCEPT ![t].pc = IF task[t].op = "merge" THEN "mrg_gettarget" ELSE "del_delete"]
  /\ UNCHANGED <<tx, foreignKeys, gateway, concurrent, ops, limit>>

(***************************************************************************)
(* AlbumService.deleteAlbum                                                *)
(***************************************************************************)
DeleteStart(t, albumId, targetAlbumId) ==
  /\ CanStart(t)
  /\ LET tk == [Begun("deleteAlbum") EXCEPT !.albumId = albumId, !.targetAlbumId = targetAlbumId,
                                            !.givenTarget = targetAlbumId]
         photoCount == CountPhotos(db, albumId)
     IN task' = [task EXCEPT ![t] =
          IF albumId <= 0 THEN Settle(tk, "ValidationError")
          ELSE IF photoCount > 0 /\ targetAlbumId = 0
          THEN [tk EXCEPT !.photoCount = photoCount, !.photoDate = NoDate,
                          !.pc = "goc_lookup", !.ret = "del_target"]
          ELSE [tk EXCEPT !.photoCount = photoCount, !.pc = "del_begin"]]
  /\ ops' = ops + 1
  /\ UNCHANGED <<db, image, tx, foreignKeys, gateway, concurrent, limit>>

\* targetAlbumId = undatedAlbum.id (when resolved); beginTransaction
DelBegin(t) ==
  /\ task[t].pc \in {"del_target", "del_begin"}
  /\ LET tk == task[t]
         target == IF tk.pc = "del_target" THEN tk.album.id ELSE tk.targetAlbumId
         tk1 == [tk EXCEPT !.targetAlbumId = target]
     IN IF ~CanBegin
        THEN /\ task' = [task EXCEPT ![t] = Settle(tk1, "DatabaseError")]
             /\ tx' = tx
        ELSE /\ task' = [task EXCEPT ![t] =
                  [tk1 EXCEPT !.pc = IF tk.photoCount > 0 /\ target # 0 THEN "del_move" ELSE "del_delete"]]
             /\ tx' = Opened
  /\ UNCHANGED <<db, image, foreignKeys, gateway, concurrent, ops, limit>>

\* variant: thumbnails of the moved photos are regenerated before the count is
\* recomputed
DelMove_thenThumbnail(t) ==
  /\ task[t].pc = "del_move"
  /\ LET tk == task[t]
         r == SqlMovePhotos(db, tk.targetAlbumId, tk.albumId, foreignKeys)
     IN /\ db' = r.db
        /\ image' = Saved(r)
        /\ task' = [task EXCEPT ![t] =
             IF r.ok THEN [tk EXCEPT !.pc = "imp_thumb"]
             ELSE [tk EXCEPT !.err = "DatabaseError", !.pc = "rollback"]]
  /\ UNCHANGED <<tx, foreignKeys, gateway, concurrent, ops, limit>>

\* UPDATE photos SET album_id = targetAlbumId WHERE album_id = albumId
DelMove(t) ==
  /\ task[t].pc = "del_move"
  /\ LET tk == task[t]
         r == SqlMovePhotos(db, tk.targetAlbumId, tk.albumId, foreignKeys)
     IN /\ db' = r.db
        /\ image' = Saved(r)
        /\ task' = [task EXCEPT ![t] =
             IF r.ok THEN [tk EXCEPT !.pc = "upd_count"]
             ELSE [tk EXCEPT !.err = "DatabaseError", !.pc = "rollback"]]
  /\ UNCHANGED <<tx, foreignKeys, gateway, concurrent, ops, limit>>

\* DELETE FROM albums WHERE id = albumId; changes === 0 -> AlbumError
DelDelete(t) ==
  /\ task[t].pc = "del_delete"
  /\ LET tk == task[t]
         r == SqlDeleteAlbum(db, tk.albumId, foreignKeys)
     IN /\ db' = r.db
        /\ image' = Saved(r)
        /\ task' = [task EXCEPT ![t] =
             IF ~r.ok THEN [tk EXCEPT !.err = "DatabaseError", !.pc = "rollback"]
             ELSE IF r.changes = 0 THEN [tk EXCEPT !.err = "AlbumError", !.pc = "rollback"]
             ELSE [tk EXCEPT !.pc = "commit"]]
  /\ UNCHANGED <<tx, foreignKeys, gateway, concurrent, ops, limit>>

\* a statement of deleteAlbum's transaction fails in the storage layer (prepare/run
\* throws, or the save to IndexedDB after the write is rejected): execute throws
\* DatabaseError and the catch block rolls back
DelStorageFailure(t) ==
  /\ task[t].pc \in {"del_move", "del_delete"}
  /\ task' = [task EXCEPT ![t].err = "DatabaseError", ![t].pc = "rollback"]
  /\ UNCHANGED <<db, image, tx, foreignKeys, gateway, concurrent, ops, limit>>

(***************************************************************************)
(* AlbumService.mergeAlbums                                                *)
(***************************************************************************)
MergeStart(t, sourceAlbumId, targetAlbumId) ==
  /\ CanStart(t)
  /\ LET tk == [Begun("merge") EXCEPT !.albumId = sourceAlbumId, !.targetAlbumId = targetAlbumId,
                                      !.givenTarget = targetAlbumId]
     IN IF sourceAlbumId = 0 \/ targetAlbumId = 0 \/ sourceAlbumId = targetAlbumId
        THEN /\ task' = [task EXCEPT ![t] = Settle(tk, "ValidationError")]
             /\ tx' = tx
        ELSE IF ~CanBegin
        THEN /\ task' = [task EXCEPT ![t] = Settle(tk, "DatabaseError")]
             /\ tx' = tx
        ELSE /\ task' = [task EXCEPT ![t] = [tk EXCEPT !.pc = "mrg_move"]]
             /\ tx' = Opened
  /\ ops' = ops + 1
  /\ UNCHANGED <<db, image, foreignKeys, gateway, concurrent, limit>>

\* UPDATE photos SET album_id = targetAlbumId WHERE album_id = sourceAlbumId
MergeMove(t) ==
  /\ task[t].pc = "mrg_move"
  /\ LET tk == task[t]
         r == SqlMovePhotos(db, tk.targetAlbumId, tk.albumId, foreignKeys)
     IN /\ db' = r.db
        /\ image' = Saved(r)
        /\ task' = [task EXCEPT ![t] =
             IF r.ok THEN [tk EXCEPT !.pc = "upd_count"]
             ELSE [tk EXCEPT !.err = "DatabaseError", !.pc = "rollback"]]
  /\ UNCHANGED <<tx, foreignKeys, gateway, concurrent, ops, limit>>

\* const targetAlbum = await this.getAlbumById(targetAlbumId);
\* if (targetAlbum && !targetAlbum.hasCoverPhoto()) updateAlbumCover(targetAlbumId)
MergeGetTarget(t) ==
  /\ task[t].pc = "mrg_gettarget"
  /\ LET targetAlbum == SelectAlbumById(db, task[t].targetAlbumId)
     IN task' = [task EXCEPT ![t].album = targetAlbum,
                             ![t].pc = IF targetAlbum # NoAlbum /\ ~hasCoverPhoto(targetAlbum)
                                       THEN "mrg_selectcover" ELSE "mrg_delete"]
  /\ UNCHANGED <<db, image, tx, foreignKeys, gateway, concurrent, ops, limit>>

\* updateAlbumCover(albumId): auto-select the most recent photo
MergeSelectCover(t) ==
  /\ task[t].pc = "mrg_selectcover"
  /\ task' = [task EXCEPT ![t].photoId = SelectCoverCandidate(db, task[t].targetAlbumId),
                          ![t].pc = "mrg_covergetalbum"]
  /\ UNCHANGED <<db, image, tx, foreignKeys, gateway, concurrent, ops, limit>>

\* updateAlbum(albumId, {cover_photo_id}): getAlbumById
MergeCoverGetAlbum(t) ==
  /\ task[t].pc = "mrg_covergetalbum"
  /\ task' = [task EXCEPT ![t] =
       IF SelectAlbumById(db, task[t].targetAlbumId) = NoAlbum
       THEN [task[t] EXCEPT !.err = "AlbumError", !.pc = "rollback"]
       ELSE [task[t] EXCEPT !.pc = "mrg_setcover"]]
  /\ UNCHANGED <<db, image, tx, foreignKeys, gateway, concurrent, ops, limit>>

\* updateAlbum: UPDATE albums SET cover_photo_id = ?
MergeSetCover(t) ==
  /\ task[t].pc = "mrg_setcover"
  /\ LET tk == task[t]
         r == SqlSetCover(db, tk.targetAlbumId, tk.photoId, foreignKeys)
     IN /\ db' = r.db
        /\ image' = Saved(r)
        /\ task' = [task EXCEPT ![t] =
             IF r.ok THEN [tk EXCEPT !.pc = "mrg_delete"]
             ELSE [tk EXCEPT !.err = "DatabaseError", !.pc = "rollback"]]
  /\ UNCHANGED <<tx, foreignKeys, gateway, concurrent, ops, limit>>

\* DELETE FROM albums WHERE id = sourceAlbumId (the result is not inspected)
MergeDelete(t) ==
  /\ task[t].pc = "mrg_delete"
  /\ LET tk == task[t]
         r == SqlDeleteAlbum(db, tk.albumId, foreignKeys)
     IN /\ db' = r.db
        /\ image' = Saved(r)
        /\ task' = [task EXCEPT ![t] =
             IF r.ok THEN [tk EXCEPT !.pc = "commit"]
             ELSE [tk EXCEPT !.err = "DatabaseError", !.pc = "rollback"]]
  /\ UNCHANGED <<tx, foreignKeys, gateway, concurrent, ops, limit>>

(***************************************************************************)
(* AlbumService.updateAlbumPhotoCount and AlbumService.updateAlbumCover    *)
(* called on their own                                                     *)
(***************************************************************************)
\* the call repeats the call that task t made last: same helper, same album, and
\* that call has settled
Repeats(t, op, albumId) ==
  task[t].op = op /\ task[t].pc = "done" /\ task[t].albumId = albumId

\* updateAlbumPhotoCount(albumId): getAlbumPhotoCount returns 0 for an id that is
\* not positive, and updateAlbum then rejects the id with ValidationError
UpdateAlbumPhotoCountStart(t, albumId) ==
  /\ CanStart(t)
  /\ LET tk == [Begun("updateAlbumPhotoCount") EXCEPT
                  !.albumId = albumId, !.again = Repeats(t, "updateAlbumPhotoCount", albumId)]
     IN task' = [task EXCEPT ![t] =
          IF albumId <= 0 THEN Settle(tk, "ValidationError") ELSE [tk EXCEPT !.pc = "upc_count"]]
  /\ ops' = ops + 1
  /\ UNCHANGED <<db, image, tx, foreignKeys, gateway, concurrent, limit>>

\* getAlbumPhotoCount: SELECT COUNT(*) FROM photos WHERE album_id = ?
UpcCount(t) ==
  /\ task[t].pc = "upc_count"
  /\ task' = [task EXCEPT ![t].count = CountPhotos(db, task[t].albumId), ![t].pc = "upc_getalbum"]
  /\ UNCHANGED <<db, image, tx, foreignKeys, gateway, concurrent, ops, limit>>

\* updateAlbum: const album = await this.getAlbumById(albumId); if (!album) throw
UpcGetAlbum(t) ==
  /\ task[t].pc = "upc_getalbum"
  /\ task' = [task EXCEPT ![t] =
       IF SelectAlbumById(db, task[t].albumId) = NoAlbum
       THEN Settle([task[t] EXCEPT !.err = "Album not found"], "AlbumError")
       ELSE [task[t] EXCEPT !.pc = "upc_setcount"]]
  /\ UNCHANGED <<db, image, tx, foreignKeys, gateway, concurrent, ops, limit>>

\* variant: the counted photos are added to the stored count
UpcSetCount_adds(t) ==
  /\ task[t].pc = "upc_setcount"
  /\ LET tk == task[t]
         r == SqlSetPhotoCount(db, tk.albumId, SelectAlbumById(db, tk.albumId).photoCount + tk.count)
     IN /\ db' = r.db
        /\ image' = Saved(r)
        /\ task' = [task EXCEPT ![t] = Settle([tk EXCEPT !.retval = (r.changes > 0)], "returned")]
  /\ UNCHANGED <<tx, foreignKeys, gateway, concurrent, ops, limit>>

\* updateAlbum: UPDATE albums SET photo_count = ? WHERE id = ?; return changes > 0
UpcSetCount(t) ==
  /\ task[t].pc = "upc_setcount"
  /\ LET tk == task[t]
         r == SqlSetPhotoCount(db, tk.albumId, tk.count)
     IN /\ db' = r.db
        /\ image' = Saved(r)
        /\ task' = [task EXCEPT ![t] = Settle([tk EXCEPT !.retval = (r.changes > 0)], "returned")]
  /\ UNCHANGED <<tx, foreignKeys, gateway, concurrent, ops, limit>>

\* updateAlbumCover(albumId) with no photo id given: the id is checked first
UpdateAlbumCoverStart(t, albumId) ==
  /\ CanStart(t)
  /\ LET tk == [Begun("updateAlbumCover") EXCEPT
                  !.albumId = albumId, !.again = Repeats(t, "updateAlbumCover", albumId)]
     IN task' = [task EXCEPT ![t] =
          IF albumId <= 0 THEN Settle(tk, "ValidationError") ELSE [tk EXCEPT !.pc = "uac_select"]]
  /\ ops' = ops + 1
  /\ UNCHANGED <<db, image, tx, foreignKeys, gateway, concurrent, limit>>

\* auto-select: SELECT id FROM photos WHERE album_id = ? ORDER BY date_taken DESC,
\* date_added DESC LIMIT 1; coverPhotoId = coverPhoto ? coverPhoto.id : null
UacSelect(t) ==
  /\ task[t].pc = "uac_select"
  /\ task' = [task EXCEPT ![t].photoId = SelectCoverCandidate(db, task[t].albumId),
                          ![t].pc = "uac_getalbum"]
  /\ UNCHANGED <<db, image, tx, foreignKeys, gateway, concurrent, ops, limit>>

\* updateAlbum: const album = await this.getAlbumById(albumId); if (!album) throw
UacGetAlbum(t) ==
  /\ task[t].pc = "uac_getalbum"
  /\ task' = [task EXCEPT ![t] =
       IF SelectAlbumById(db, task[t].albumId) = NoAlbum
       THEN Settle([task[t] EXCEPT !.err = "Album not found"], "AlbumError")
       ELSE [task[t] EXCEPT !.pc = "uac_setcover"]]
  /\ UNCHANGED <<db, image, tx, foreignKeys, gateway, concurrent, ops, limit>>

\* updateAlbum: UPDATE albums SET cover_photo_id = ? WHERE id = ?; a failing
\* statement is rethrown as DatabaseError
UacSetCover(t) ==
  /\ task[t].pc = "uac_setcover"
  /\ LET tk == task[t]
         r == SqlSetCover(db, tk.albumId, tk.photoId, foreignKeys)
     IN /\ db' = r.db
        /\ image' = Saved(r)
        /\ task' = [task EXCEPT ![t] =
             IF r.ok THEN Settle([tk EXCEPT !.retval = (r.changes > 0)], "returned")
             ELSE Settle(tk, "DatabaseError")]
  /\ UNCHANGED <<tx, foreignKeys, gateway, concurrent, ops, limit>>

(***************************************************************************)
(* PhotoService.deletePhoto                                                *)
(***************************************************************************)
\* const photo = await this.db.get('SELECT * FROM photos WHERE id = ?')
DeletePhotoStart(t, photoId) ==
  /\ CanStart(t)
  /\ LET tk == [Begun("deletePhoto") EXCEPT !.photoId = photoId]
     IN task' = [task EXCEPT ![t] =
          IF photoId \notin PhotoIds(db) THEN Settle([tk EXCEPT !.retval = FALSE], "returned")
          ELSE [tk EXCEPT !.pc = "dp_delete"]]
  /\ ops' = ops + 1
  /\ UNCHANGED <<db, image, tx, foreignKeys, gateway, concurrent, limit>>

\* await this.db.execute('DELETE FROM photos WHERE id = ?'); return true
DeletePhotoDelete(t) ==
  /\ task[t].pc = "dp_delete"
  /\ LET tk == task[t]
         r == SqlDeletePhoto(db, tk.photoId, foreignKeys)
     IN /\ db' = r.db
        /\ image' = Saved(r)
        /\ task' = [task EXCEPT ![t] =
             IF r.ok THEN Settle([tk EXCEPT !.retval = TRUE], "returned")
             ELSE Settle(tk, "DatabaseError")]
  /\ UNCHANGED <<tx, foreignKeys, gateway, concurrent, ops, limit>>

(***************************************************************************)
(* AlbumService.getAllAlbums (listAlbums)                                  *)
(***************************************************************************)
\* the reorderAlbums call that holds the open transaction, if any
Reordering == {u \in Tasks : task[u].op = "reorder" /\ task[u].pc \in {"reo_update", "commit", "rollback"}}

\* a read-only call: it is not counted in ops
GetAllAlbums(t) ==
  /\ Free(t)
  /\ \A u \in Tasks : u < t => ~Free(u)
  /\ concurrent \/ t = 1
  /\ LET obs == IF Reordering = {} THEN NoObs
                ELSE [during |-> TRUE, before |-> tx.snap.albums,
                      ids |-> task[CHOOSE u \in Reordering : TRUE].albumIds]
     IN task' = [task EXCEPT ![t] =
          Settle([Begun("list") EXCEPT !.rows = SortAlbums(db.albums), !.obs = obs], "returned")]
  /\ UNCHANGED <<db, image, tx, foreignKeys, gateway, concurrent, ops, limit>>

(***************************************************************************)
(* DatabaseService: initialize, the guarded calls, close                   *)
(***************************************************************************)
GatewayMethods == {"execute", "get", "all", "beginTransaction"}

\* databaseService.initialize() is called
InitializeStart(t) ==
  /\ CanStart(t)
  /\ task' = [task EXCEPT ![t] = [Begun("initialize") EXCEPT !.pc = "init_sql"]]
  /\ ops' = ops + 1
  /\ UNCHANGED <<db, image, tx, foreignKeys, gateway, concurrent, limit>>

\* a new session after a reorderAlbums that returned: new DatabaseService(),
\* initialize(), new AlbumService(...), getAllAlbums().  The commit of the reorder
\* saved the whole database, so the image the new session loads is db
SessionStart(t) ==
  /\ CanStart(t)
  /\ task[t].op = "reorder" /\ task[t].pc = "done" /\ task[t].status = "returned"
  /\ gateway' = Fresh
  /\ tx' = NoTx
  /\ task' = [task EXCEPT ![t] = [Begun("session") EXCEPT !.albumIds = task[t].albumIds,
                                                         !.pc = "init_sql"]]
  /\ ops' = ops + 1
  /\ UNCHANGED <<db, image, foreignKeys, concurrent, limit>>

\* const SQL = await initSqlJs(config): initSqlJs is neither imported nor defined
\* in the module, so the call works only where the host page provides the global
InitSql(t) ==
  /\ task[t].pc = "init_sql"
  /\ \E provided \in BOOLEAN :
       task' = [task EXCEPT ![t] =
         IF provided THEN [task[t] EXCEPT !.pc = "init_load"]
         ELSE Settle([task[t] EXCEPT !.err = "Failed to initialize database"], "DatabaseError")]
  /\ UNCHANGED <<db, image, tx, foreignKeys, gateway, concurrent, ops, limit>>

\* const dbData = await this.loadFromIndexedDB(); this.db = new SQL.Database(dbData)
InitLoad(t) ==
  /\ task[t].pc = "init_load"
  /\ gateway' = [gateway EXCEPT !.open = TRUE]
  /\ db' = image
  /\ tx' = NoTx
  /\ task' = [task EXCEPT ![t].pc = "init_tables"]
  /\ UNCHANGED <<image, foreignKeys, concurrent, ops, limit>>

\* await this.createTables(): the class has no such method (the schema method is
\* createSchema), so the call throws TypeError and the catch block rejects with
\* DatabaseError; isInitialized is assigned nowhere but in the constructor and close
InitTables(t) ==
  /\ task[t].pc = "init_tables"
  /\ task' = [task EXCEPT ![t] =
       Settle([task[t] EXCEPT !.err = "Failed to initialize database"], "DatabaseError")]
  /\ UNCHANGED <<db, image, tx, foreignKeys, gateway, concurrent, ops, limit>>

\* execute / get / all / beginTransaction: this.ensureInitialized() comes first
GatewayCall(t, method) ==
  /\ CanStart(t)
  /\ LET tk == [Begun("call") EXCEPT !.method = method, !.ready = ensureInitialized(gateway)]
     IN task' = [task EXCEPT ![t] =
          IF ensureInitialized(gateway) THEN Settle(tk, "returned")
          ELSE Settle([tk EXCEPT !.err = "Database not initialized"], "DatabaseError")]
  /\ ops' = ops + 1
  /\ UNCHANGED <<db, image, tx, foreignKeys, gateway, concurrent, limit>>

\* close(): if (this.db) { save; this.db.close(); this.db = null;
\* this.isInitialized = false }; return true
Close(t) ==
  /\ CanStart(t)
  /\ gateway' = IF gateway.open THEN Fresh ELSE gateway
  /\ tx' = IF gateway.open THEN NoTx ELSE tx
  /\ image' = IF gateway.open THEN db ELSE image
  /\ task' = [task EXCEPT ![t] = Settle([Begun("close") EXCEPT !.retval = TRUE], "returned")]
  /\ ops' = ops + 1
  /\ UNCHANGED <<db, foreignKeys, concurrent, limit>>

PeriodInputs == {UNDATED, DatePeriodOf(MkDate(2025, 8)), DatePeriodOf(MkDate(2025, 9))}

Next ==
  \E t \in Tasks :
    \/ \E photoDate \in DateInputs : GetOrCreateStart(t, photoDate)
    \/ GocLookup(t)
    \/ \E p \in PeriodInputs : CreateAlbumStart(t, p, generateNameFromDatePeriod(p))
    \/ CaCheck(t)
    \/ CaList(t)
    \/ CaInsert(t)
    \/ \E files \in BatchInputs : ImportStart(t, files)
    \/ ImportValidate(t)
    \/ ImportExtract(t)
    \/ ImportThumb(t)
    \/ ImportInsert(t)
    \/ ImportCount(t)
    \/ ImportSetCount(t)
    \/ ImportCover(t)
    \/ ImportSetCover(t)
    \/ \E albumIds \in ReorderInputs : ReorderStart(t, albumIds)
    \/ ReorderUpdate(t)
    \/ \E albumId \in IdInputs, newOrder \in OrderInputs : UpdateOrderStart(t, albumId, newOrder)
    \/ UpdateOrderExec(t)
    \/ TxCommit(t)
    \/ TxRollback(t)
    \/ UpdCount(t)
    \/ UpdGetAlbum(t)
    \/ UpdSetCount(t)
    \/ \E albumId \in IdInputs, targetAlbumId \in IdInputs : DeleteStart(t, albumId, targetAlbumId)
    \/ DelBegin(t)
    \/ DelMove(t)
    \/ DelDelete(t)
    \/ DelStorageFailure(t)
    \/ \E sourceAlbumId \in IdInputs, targetAlbumId \in IdInputs : MergeStart(t, sourceAlbumId, targetAlbumId)
    \/ MergeMove(t)
    \/ MergeGetTarget(t)
    \/ MergeSelectCover(t)
    \/ MergeCoverGetAlbum(t)
    \/ MergeSetCover(t)
    \/ MergeDelete(t)
    \/ \E photoId \in PhotoIdInputs : DeletePhotoStart(t, photoId)
    \/ DeletePhotoDelete(t)
    \/ \E albumId \in IdInputs : UpdateAlbumPhotoCountStart(t, albumId)
    \/ UpcCount(t)
    \/ UpcGetAlbum(t)
    \/ UpcSetCount(t)
    \/ \E albumId \in IdInputs : UpdateAlbumCoverStart(t, albumId)
    \/ UacSelect(t)
    \/ UacGetAlbum(t)
    \/ UacSetCover(t)
    \/ GetAllAlbums(t)
    \/ InitializeStart(t)
    \/ SessionStart(t)
    \/ InitSql(t)
    \/ InitLoad(t)
    \/ InitTables(t)
    \/ \E method \in GatewayMethods : GatewayCall(t, method)
    \/ Close(t)

\* the whole program, operations invoked concurrently by the host UI
Spec == Init /\ [][Next]_vars

\* steps of getOrCreateAlbumForDate / createAlbum
AlbumSteps(t) == GocLookup(t) \/ CaCheck(t) \/ CaList(t) \/ CaInsert(t)

ImportSteps(t) ==
  \/ ImportValidate(t) \/ ImportExtract(t) \/ ImportThumb(t) \/ ImportInsert(t)
  \/ ImportCount(t) \/ ImportSetCount(t) \/ ImportCover(t) \/ ImportSetCover(t)

TxSteps(t) ==
  \/ TxCommit(t) \/ TxRollback(t) \/ UpdCount(t) \/ UpdGetAlbum(t) \/ UpdSetCount(t)
  \/ DelBegin(t) \/ DelMove(t) \/ DelDelete(t)
  \/ MergeMove(t) \/ MergeGetTarget(t) \/ MergeSelectCover(t) \/ MergeCoverGetAlbum(t)
  \/ MergeSetCover(t) \/ MergeDelete(t)

\* files that pass validation
GoodFiles == {FileAug, FileNoDate}
GoodBatches == UNION {[1..n -> GoodFiles] : n \in 1..MaxBatch}
SingleBatches == {<<f>> : f \in GoodFiles}

(***************************************************************************)
(* SpecImport: one importPhotos call on a fresh store                      *)
(***************************************************************************)
InitImport == InitCommon /\ concurrent = FALSE /\ limit = 1

NextImport ==
  \E t \in Tasks :
    \/ \E files \in BatchInputs : ImportStart(t, files)
    \/ ImportSteps(t)
    \/ AlbumSteps(t)

SpecImport == InitImport /\ [][NextImport]_vars

(***************************************************************************)
(* SpecCatalog: import, deletePhoto, deleteAlbum and mergeAlbums calls,    *)
(* each awaited before the next                                            *)
(***************************************************************************)
InitCatalog == InitCommon /\ concurrent = FALSE /\ limit = MaxCatalogOps

NextCatalog ==
  \E t \in Tasks :
    \/ \E files \in GoodBatches : ImportStart(t, files)
    \/ ImportSteps(t)
    \/ AlbumSteps(t)
    \/ \E photoId \in PhotoIdInputs : DeletePhotoStart(t, photoId)
    \/ DeletePhotoDelete(t)
    \/ \E albumId \in IdInputs, targetAlbumId \in IdInputs : DeleteStart(t, albumId, targetAlbumId)
    \/ \E sourceAlbumId \in IdInputs, targetAlbumId \in IdInputs : MergeStart(t, sourceAlbumId, targetAlbumId)
    \/ TxSteps(t)

SpecCatalog == InitCatalog /\ [][NextCatalog]_vars

(***************************************************************************)
(* SpecReorder: createAlbum and reorderAlbums calls, each awaited before   *)
(* the next.  SpecObserve: the same calls and getAllAlbums, invoked while  *)
(* others are pending                                                      *)
(***************************************************************************)
InitReorder == InitCommon /\ concurrent = FALSE /\ limit = MaxReorderOps
InitObserve == InitCommon /\ concurrent = TRUE /\ limit = MaxObserveOps

NextReorder ==
  \E t \in Tasks :
    \/ \E p \in PeriodInputs : CreateAlbumStart(t, p, generateNameFromDatePeriod(p))
    \/ CaCheck(t) \/ CaList(t) \/ CaInsert(t)
    \/ \E albumIds \in ReorderInputs : ReorderStart(t, albumIds)
    \/ ReorderUpdate(t)
    \/ TxCommit(t)
    \/ TxRollback(t)

NextObserve ==
  \E t \in Tasks :
    \/ \E p \in PeriodInputs : CreateAlbumStart(t, p, generateNameFromDatePeriod(p))
    \/ CaCheck(t) \/ CaList(t) \/ CaInsert(t)
    \/ \E albumIds \in ReorderInputs : ReorderStart(t, albumIds)
    \/ ReorderUpdate(t)
    \/ TxCommit(t)
    \/ TxRollback(t)
    \/ GetAllAlbums(t)

SpecReorder == InitReorder /\ [][NextReorder]_vars
SpecObserve == InitObserve /\ [][NextObserve]_vars

(***************************************************************************)
(* SpecRace: getOrCreateAlbumForDate, importPhotos, deleteAlbum and        *)
(* mergeAlbums calls invoked while others are pending                      *)
(***************************************************************************)
InitRace == InitCommon /\ concurrent = TRUE /\ limit = MaxRaceOps

NextRace ==
  \E t \in Tasks :
    \/ \E photoDate \in DateInputs : GetOrCreateStart(t, photoDate)
    \/ \E files \in SingleBatches : ImportStart(t, files)
    \/ ImportSteps(t)
    \/ AlbumSteps(t)
    \/ \E albumId \in IdInputs, targetAlbumId \in IdInputs : DeleteStart(t, albumId, targetAlbumId)
    \/ \E sourceAlbumId \in IdInputs, targetAlbumId \in IdInputs : MergeStart(t, sourceAlbumId, targetAlbumId)
    \/ TxSteps(t)

SpecRace == InitRace /\ [][NextRace]_vars

(***************************************************************************)
(* SpecMerge: importPhotos, deletePhoto and mergeAlbums calls, each        *)
(* awaited before the next                                                 *)
(***************************************************************************)
MaxMergeOps == 2

InitMerge == InitCommon /\ concurrent = FALSE /\ limit = MaxMergeOps

MergeSteps(t) ==
  \/ MergeMove(t) \/ UpdCount(t) \/ UpdGetAlbum(t) \/ UpdSetCount(t) \/ MergeGetTarget(t)
  \/ MergeSelectCover(t) \/ MergeCoverGetAlbum(t) \/ MergeSetCover(t) \/ MergeDelete(t)
  \/ TxCommit(t) \/ TxRollback(t)

NextMerge ==
  \E t \in Tasks :
    \/ \E files \in GoodBatches : ImportStart(t, files)
    \/ ImportSteps(t)
    \/ AlbumSteps(t)
    \/ \E photoId \in PhotoIdInputs : DeletePhotoStart(t, photoId)
    \/ DeletePhotoDelete(t)
    \/ \E sourceAlbumId \in IdInputs, targetAlbumId \in IdInputs : MergeStart(t, sourceAlbumId, targetAlbumId)
    \/ MergeSteps(t)

SpecMerge == InitMerge /\ [][NextMerge]_vars

(***************************************************************************)
(* SpecResolve: getOrCreateAlbumForDate calls, each awaited before the next*)
(***************************************************************************)
MaxResolveOps == 3

InitResolve == InitCommon /\ concurrent = FALSE /\ limit = MaxResolveOps

NextResolve ==
  \E t \in Tasks :
    \/ \E photoDate \in DateInputs : GetOrCreateStart(t, photoDate)
    \/ AlbumSteps(t)

SpecResolve == InitResolve /\ [][NextResolve]_vars

(***************************************************************************)
(* SpecTimestamp: getOrCreateAlbumForDate calls, each awaited before the   *)
(* next, with timestamps of any year                                       *)
(***************************************************************************)
\* timestamps a caller may pass: absent, invalid, two months of 2025, a date before
\* 1900 and a date after next year
TimestampInputs == DateInputs \cup {MkDate(1899, 12), MkDate(CurrentYear + 2, 1)}

NextTimestamp ==
  \E t \in Tasks :
    \/ \E photoDate \in TimestampInputs : GetOrCreateStart(t, photoDate)
    \/ AlbumSteps(t)

SpecTimestamp == InitResolve /\ [][NextTimestamp]_vars

(***************************************************************************)
(* SpecDelete: importPhotos and deleteAlbum calls, each awaited before the *)
(* next; a statement of deleteAlbum's transaction may fail in storage      *)
(***************************************************************************)
MaxDeleteOps == 2

InitDelete == InitCommon /\ concurrent = FALSE /\ limit = MaxDeleteOps

NextDelete ==
  \E t \in Tasks :
    \/ \E files \in SingleBatches : ImportStart(t, files)
    \/ ImportSteps(t)
    \/ AlbumSteps(t)
    \/ \E albumId \in IdInputs, targetAlbumId \in IdInputs : DeleteStart(t, albumId, targetAlbumId)
    \/ DelBegin(t) \/ DelMove(t) \/ UpdCount(t) \/ UpdGetAlbum(t) \/ UpdSetCount(t) \/ DelDelete(t)
    \/ DelStorageFailure(t)
    \/ TxCommit(t) \/ TxRollback(t)

SpecDelete == InitDelete /\ [][NextDelete]_vars

(***************************************************************************)
(* SpecScenario: one importPhotos call on a fresh store with two files     *)
(* dated August 2025 and one file without a date, in any order             *)
(***************************************************************************)
ScenarioFiles == {FileAug, FileAugB, FileNoDate}
ScenarioBatches == {b \in [1..3 -> ScenarioFiles] : \A j, k \in 1..3 : b[j] = b[k] => j = k}

InitScenario == InitCommon /\ concurrent = FALSE /\ limit = 1

NextScenario ==
  \E t \in Tasks :
    \/ \E files \in ScenarioBatches : ImportStart(t, files)
    \/ ImportSteps(t)
    \/ AlbumSteps(t)

SpecScenario == InitScenario /\ [][NextScenario]_vars

(***************************************************************************)
(* SpecOrder: createAlbum and updateAlbumOrder calls, each awaited before  *)
(* the next                                                                *)
(***************************************************************************)
MaxOrderOps == 3

InitOrder == InitCommon /\ concurrent = FALSE /\ limit = MaxOrderOps

NextOrder ==
  \E t \in Tasks :
    \/ \E p \in PeriodInputs : CreateAlbumStart(t, p, generateNameFromDatePeriod(p))
    \/ CaCheck(t) \/ CaList(t) \/ CaInsert(t)
    \/ \E albumId \in IdInputs, newOrder \in OrderInputs : UpdateOrderStart(t, albumId, newOrder)
    \/ UpdateOrderExec(t)

SpecOrder == InitOrder /\ [][NextOrder]_vars

(***************************************************************************)
(* SpecGateway: initialize, execute/get/all/beginTransaction and close     *)
(* called on a newly constructed DatabaseService                           *)
(***************************************************************************)
MaxGatewayOps == 3

InitGateway == InitStore /\ gateway = Fresh /\ concurrent = TRUE /\ limit = MaxGatewayOps

NextGateway ==
  \E t \in Tasks :
    \/ InitializeStart(t)
    \/ InitSql(t)
    \/ InitLoad(t)
    \/ InitTables(t)
    \/ \E method \in GatewayMethods : GatewayCall(t, method)
    \/ Close(t)

SpecGateway == InitGateway /\ [][NextGateway]_vars

(***************************************************************************)
(* SpecSession: createAlbum and reorderAlbums calls, each awaited before   *)
(* the next, then a new session                                            *)
(***************************************************************************)
MaxSessionOps == 3

InitSession == InitCommon /\ concurrent = FALSE /\ limit = MaxSessionOps

NextSession ==
  \E t \in Tasks :
    \/ \E p \in PeriodInputs :
         ensureInitialized(gateway) /\ CreateAlbumStart(t, p, generateNameFromDatePeriod(p))
    \/ CaCheck(t) \/ CaList(t) \/ CaInsert(t)
    \/ \E albumIds \in ReorderInputs : ensureInitialized(gateway) /\ ReorderStart(t, albumIds)
    \/ ReorderUpdate(t)
    \/ TxCommit(t)
    \/ TxRollback(t)
    \/ SessionStart(t)
    \/ InitSql(t)
    \/ InitLoad(t)
    \/ InitTables(t)

SpecSession == InitSession /\ [][NextSession]_vars

(***************************************************************************)
(* SpecCreate: createAlbum calls with well-formed and malformed arguments, *)
(* each awaited before the next                                            *)
(***************************************************************************)
MaxCreateOps == 3

\* date periods a caller may pass: the well-formed ones, a month of 13, a year
\* before 1900, a year after next year, a one-digit month, the empty string
CreatePeriodInputs ==
  PeriodInputs \cup
  { DatePeriodOf(MkDate(2025, 10)),
    DecStr(2025) \o <<DASH>> \o DecStr(13),
    DatePeriodOf(MkDate(1899, 12)),
    DatePeriodOf(MkDate(CurrentYear + 2, 1)),
    DecStr(2025) \o <<DASH>> \o DecStr(8),
    <<>> }

\* names a caller may pass with period p: the suggested name, '' and ' '
CreateNameInputs(p) ==
  {generateNameFromDatePeriod(p), [text |-> "", year |-> <<>>], [text |-> " ", year |-> <<>>]}

InitCreate == InitCommon /\ concurrent = FALSE /\ limit = MaxCreateOps

NextCreate ==
  \E t \in Tasks :
    \/ \E p \in CreatePeriodInputs : \E name \in CreateNameInputs(p) : CreateAlbumStart(t, p, name)
    \/ CaCheck(t) \/ CaList(t) \/ CaInsert(t)

SpecCreate == InitCreate /\ [][NextCreate]_vars

Quiescent == \A t \in Tasks : task[t].pc \in {"idle", "done"}

TypeOK ==
  /\ tx.open \in BOOLEAN
  /\ ops \in 0..limit
  /\ \A a \in db.albums : a.id \in 1..db.albumSeq
  /\ \A p \in db.photos : p.id \in 1..db.photoSeq

(***************************************************************************)
(* Properties                                                              *)
(***************************************************************************)
Done(t, op) == task[t].op = op /\ task[t].pc = "done"
Returned(t, op) == Done(t, op) /\ task[t].status = "returned"

Range(f) == {f[k] : k \in DOMAIN f}

\* listAlbums() on the current store: the ids and the display orders it yields
ListedIds == [k \in 1..Cardinality(db.albums) |-> SortAlbums(db.albums)[k].id]
ListedOrders == [k \in 1..Cardinality(db.albums) |-> SortAlbums(db.albums)[k].displayOrder]

\* C1: in every reachable state at most one album exists per date-period,
\* whatever the interleaving of concurrent getOrCreateAlbumForDate / importPhotos calls
C1_OneAlbumPerPeriod ==
  \A a, b \in db.albums : a.datePeriod = b.datePeriod => a.id = b.id

\* C2: once the import, deletePhoto, deleteAlbum and mergeAlbums calls made so far
\* have completed, every album's stored photoCount is the number of photos whose
\* albumId is that album
C2_CountMatchesPhotos ==
  Quiescent => \A a \in db.albums : a.photoCount = CountPhotos(db, a.id)

\* C3: every photo's albumId references an existing album (in every state in
\* which no transaction is open on the connection)
C3_NoOrphanPhoto ==
  ~tx.open => \A p \in db.photos : p.albumId \in AlbumIds(db)

\* C4 as stated: for any list ids of existing album ids, reorderAlbums(ids) followed
\* by listAlbums() yields the albums in exactly ids order with display orders 0..n-1
C4_AnyListOfExistingIds ==
  \A t \in Tasks :
    (Returned(t, "reorder") /\ Range(task[t].albumIds) \subseteq AlbumIds(task[t].pre))
      => /\ ListedIds = task[t].albumIds
         /\ \A k \in 1..Len(ListedOrders) : ListedOrders[k] = k - 1

IsPermutationOf(ids, S) ==
  /\ Range(ids) = S
  /\ \A j, k \in 1..Len(ids) : ids[j] = ids[k] => j = k

\* C4 amended: for any non-empty list ids that holds the id of every existing album
\* exactly once, reorderAlbums(ids) succeeds and listAlbums() then yields the albums
\* in exactly ids order with display orders 0..n-1
C4_PermutationOfAllIds ==
  \A t \in Tasks :
    (Done(t, "reorder") /\ Len(task[t].albumIds) > 0
        /\ IsPermutationOf(task[t].albumIds, AlbumIds(task[t].pre)))
      => /\ task[t].status = "returned"
         /\ ListedIds = task[t].albumIds
         /\ \A k \in 1..Len(ListedOrders) : ListedOrders[k] = k - 1

\* a reorder of all the albums has returned and changed the listing
C4_Witness ==
  \E t \in Tasks :
    /\ Returned(t, "reorder")
    /\ Len(task[t].albumIds) = MaxReorderLen
    /\ IsPermutationOf(task[t].albumIds, AlbumIds(task[t].pre))
    /\ [k \in 1..MaxReorderLen |-> SortAlbums(task[t].pre.albums)[k].id] # task[t].albumIds
    /\ ListedIds = task[t].albumIds

HasUnknownId(t) == \E k \in 1..Len(task[t].albumIds) : task[t].albumIds[k] \notin AlbumIds(task[t].pre)

RowOrder(rows, id) == rows[CHOOSE k \in 1..Len(rows) : rows[k].id = id].displayOrder
\* the display order album id gets from reorderAlbums(ids)
NewOrder(ids, id) == (CHOOSE k \in 1..Len(ids) : ids[k] = id /\ \A j \in (k + 1)..Len(ids) : ids[j] # id) - 1
OldOrder(before, id) == (CHOOSE a \in before : a.id = id).displayOrder

\* C6: a getAllAlbums call made while a reorderAlbums call is between its begin and
\* its commit or rollback never sees only some of the listed albums with their new order
C6_NoPartialReorderSeen ==
  \A t \in Tasks :
    (Done(t, "list") /\ task[t].obs.during
        /\ IsPermutationOf(task[t].obs.ids, {a.id : a \in task[t].obs.before}))
      => LET rows == task[t].rows
             ids == task[t].obs.ids
             listed == {id \in Range(ids) : \E k \in 1..Len(rows) : rows[k].id = id}
                         \cap {a.id : a \in task[t].obs.before}
         IN \/ \A id \in listed : RowOrder(rows, id) = NewOrder(ids, id)
            \/ \A id \in listed : RowOrder(rows, id) = OldOrder(task[t].obs.before, id)

FailedNames(log) ==
  LET failed == SelectSeq(log, LAMBDA e : e.outcome = "failed")
  IN [k \in 1..Len(failed) |-> failed[k].name]

\* C8: when importPhotos returns for a non-empty batch, succeeded + failed equals the
\* number of files submitted and the error list holds exactly one entry per failed file
C8_CountsAddUp ==
  \A t \in Tasks :
    (Returned(t, "import") /\ Len(task[t].files) > 0)
      => LET r == task[t].result
         IN /\ r.totalFiles = Len(task[t].files)
            /\ r.importedCount + r.failedCount = r.totalFiles
            /\ Len(r.errors) = r.failedCount
            /\ [k \in 1..Len(r.errors) |-> r.errors[k].fileName] = FailedNames(task[t].log)

\* a returned batch with one imported and one failed file
C8_Witness ==
  \E t \in Tasks :
    /\ Returned(t, "import")
    /\ task[t].result.importedCount = 1
    /\ task[t].result.failedCount = 1

\* C9: a file that passed validation and whose metadata extraction failed is still
\* imported (unless the store rejects the insert)
C9_ExtractionFailureStillImports ==
  \A t \in Tasks :
    task[t].op = "import" =>
      \A k \in 1..Len(task[t].log) :
        LET e == task[t].log[k]
        IN (e.valid /\ ~e.metaOk /\ e.reason # "DatabaseError") => e.outcome = "imported"

\* C10: deleteAlbum(albumId) of an existing album with k > 0 photos and no target
\* moves each of the k photos to the undated album, whose photoCount grows by k
C10_PhotosMoveToUndated ==
  \A t \in Tasks :
    (Done(t, "deleteAlbum") /\ task[t].givenTarget = 0
        /\ task[t].albumId \in AlbumIds(task[t].pre)
        /\ CountPhotos(task[t].pre, task[t].albumId) > 0)
      => LET moved == PhotosOf(task[t].pre, task[t].albumId)
             undatedBefore == SelectAlbumByPeriod(task[t].pre, UNDATED)
             undated == SelectAlbumByPeriod(db, UNDATED)
         IN /\ task[t].status = "returned"
            /\ undated # NoAlbum
            /\ \A p \in moved : [p EXCEPT !.albumId = undated.id] \in db.photos
            /\ undated.photoCount = undatedBefore.photoCount + Cardinality(moved)

\* C11: once the import, deletePhoto, deleteAlbum and mergeAlbums calls made so far
\* have completed, every album's cover reference, if set, names an existing photo
\* whose albumId is that album
C11_CoverBelongsToAlbum ==
  Quiescent =>
    \A a \in db.albums :
      hasCoverPhoto(a) => \E p \in db.photos : p.id = a.coverPhotoId /\ p.albumId = a.id

\* C12: after any sequence of completed createAlbum calls (no reorder in between),
\* listAlbums yields the dated albums most recent period first and the undated
\* album after every dated album
C12_ListedNewestFirst ==
  Quiescent =>
    \A j, k \in 1..Len(ListedIds) :
      LET a == SortAlbums(db.albums)[j]
          b == SortAlbums(db.albums)[k]
      IN j < k =>
           /\ ~(isUndatedAlbum(a) /\ ~isUndatedAlbum(b))
           /\ (~isUndatedAlbum(a) /\ ~isUndatedAlbum(b)) => StrGreater(a.datePeriod, b.datePeriod)

\* C13: when two concurrent getOrCreateAlbumForDate calls race to create the album of
\* the same date-period (neither found it when it was invoked), both calls return,
\* and they return the same album
C13_LoserReturnsWinnersAlbum ==
  \A t, u \in Tasks :
    (/\ t # u
     /\ Done(t, "getOrCreate") /\ Done(u, "getOrCreate")
     /\ DatePeriodOf(task[t].photoDate) = DatePeriodOf(task[u].photoDate)
     /\ SelectAlbumByPeriod(task[t].pre, DatePeriodOf(task[t].photoDate)) = NoAlbum
     /\ SelectAlbumByPeriod(task[u].pre, DatePeriodOf(task[u].photoDate)) = NoAlbum)
      => /\ task[t].status = "returned"
         /\ task[u].status = "returned"
         /\ task[t].album.id = task[u].album.id

\* C14: for existing albums s # t, after mergeAlbums(s, t) has succeeded album s no
\* longer exists, every photo that was in s or in t has albumId t, t's photoCount is
\* the number of photos of the two former sets, and t has a cover if it holds a photo
C14_MergeMovesEverything ==
  \A t \in Tasks :
    (/\ Returned(t, "merge")
     /\ task[t].albumId # task[t].targetAlbumId
     /\ {task[t].albumId, task[t].targetAlbumId} \subseteq AlbumIds(task[t].pre))
      => LET source == task[t].albumId
             target == task[t].targetAlbumId
             former == PhotosOf(task[t].pre, source) \cup PhotosOf(task[t].pre, target)
         IN /\ source \notin AlbumIds(db)
            /\ target \in AlbumIds(db)
            /\ \A p \in former : [p EXCEPT !.albumId = target] \in db.photos
            /\ SelectAlbumById(db, target).photoCount = Cardinality(former)
            /\ CountPhotos(db, target) > 0 => hasCoverPhoto(SelectAlbumById(db, target))

\* a merge of an album holding a photo into an album that held none and had no cover
C14_Witness ==
  \E t \in Tasks :
    /\ Returned(t, "merge")
    /\ {task[t].albumId, task[t].targetAlbumId} \subseteq AlbumIds(task[t].pre)
    /\ CountPhotos(task[t].pre, task[t].albumId) > 0
    /\ ~hasCoverPhoto(SelectAlbumById(task[t].pre, task[t].targetAlbumId))
    /\ hasCoverPhoto(SelectAlbumById(db, task[t].targetAlbumId))

\* C15: when deletePhoto(photoId) has returned true, the owning album's photo count
\* has been recomputed (it is the number of its photos) and its cover no longer
\* references the deleted photo
C15_DeletePhotoRecomputes ==
  \A t \in Tasks :
    (Returned(t, "deletePhoto") /\ task[t].retval)
      => LET owner == (CHOOSE p \in task[t].pre.photos : p.id = task[t].photoId).albumId
         IN \A a \in db.albums :
              a.id = owner => /\ a.photoCount = CountPhotos(db, owner)
                              /\ a.coverPhotoId # task[t].photoId

\* C16: sequential getOrCreateAlbumForDate calls are idempotent: every call returns
\* the one album of its date-period, and a call made when an album of that period
\* exists (an earlier call with a timestamp of the same month, or with an absent
\* timestamp, created and returned it) returns that album's id and creates no album
C16_ResolveIdempotent ==
  \A t \in Tasks :
    Done(t, "getOrCreate") =>
      LET period == DatePeriodOf(task[t].photoDate)
          earlier == SelectAlbumByPeriod(task[t].pre, period)
      IN /\ task[t].status = "returned"
         /\ task[t].album.datePeriod = period
         /\ {a \in db.albums : a.datePeriod = period} = {task[t].album}
         /\ earlier # NoAlbum => /\ task[t].album.id = earlier.id
                                 /\ db.albums = task[t].pre.albums

\* the second of two calls has returned the album the first call created
C16_Witness ==
  \E t \in Tasks :
    /\ Returned(t, "getOrCreate")
    /\ ops = 2
    /\ Cardinality(task[t].pre.albums) = 1
    /\ task[t].album \in task[t].pre.albums
    /\ db.albums = task[t].pre.albums

\* the arguments createAlbum must reject: a datePeriod that is not "YYYY-MM" or
\* "undated", a month outside 01-12, a year outside 1900..currentYear+1, or a name
\* that is empty after trimming
MalformedPeriod(p) ==
  \/ ~datePeriodPattern(p)
  \/ /\ p # UNDATED
     /\ \/ ParseInt(SplitMonth(p)) \notin 1..12
        \/ ParseInt(SplitYear(p)) \notin 1900..(CurrentYear + 1)

MalformedCreate(t) == MalformedPeriod(task[t].datePeriod) \/ Trim(task[t].albumName).text = ""

\* the call failed with a validation failure: ValidationError (an argument is
\* missing) or AlbumError 'Invalid album data' (Album.validate rejected it)
ValidationFailure(t) ==
  \/ task[t].status = "ValidationError"
  \/ task[t].status = "AlbumError" /\ task[t].err = "Invalid album data"

\* the call failed with Conflict: AlbumError 'Album already exists'
Conflict(t) == task[t].status = "AlbumError" /\ task[t].err = "Album already exists"

PeriodTaken(t) == \E a \in task[t].pre.albums : a.datePeriod = task[t].datePeriod

\* C18 as stated: createAlbum for a date-period that already has an album fails with
\* Conflict and leaves the set of albums and every album's fields unchanged
C18_DuplicateIsConflict ==
  \A t \in Tasks :
    (Done(t, "createAlbum") /\ PeriodTaken(t))
      => Conflict(t) /\ db = task[t].pre

\* C18 amended: createAlbum with a non-empty name for a date-period that already has
\* an album fails with Conflict; with an empty name it fails with a validation
\* failure before the existence check; in both cases the set of albums and every
\* album's fields are unchanged
C18_DuplicateFailsUnchanged ==
  \A t \in Tasks :
    (Done(t, "createAlbum") /\ PeriodTaken(t))
      => /\ db = task[t].pre
         /\ IF task[t].albumName.text # "" THEN Conflict(t) ELSE task[t].status = "ValidationError"

\* createAlbum with the suggested name for a period whose album exists, with a second
\* album stored, has failed with Conflict
C18_Witness ==
  \E t \in Tasks :
    /\ Done(t, "createAlbum")
    /\ PeriodTaken(t)
    /\ task[t].albumName = generateNameFromDatePeriod(task[t].datePeriod)
    /\ Conflict(t)
    /\ Cardinality(db.albums) = 2

\* C19: when two reorderAlbums calls overlap or follow each other, each given a
\* permutation of all album ids, both complete without error and the display orders
\* are exactly 0..n-1 afterwards
C19_ConcurrentReordersComplete ==
  \A t, u \in Tasks :
    (/\ t # u
     /\ Done(t, "reorder") /\ Done(u, "reorder")
     /\ AlbumIds(db) # {}
     /\ AlbumIds(task[t].pre) = AlbumIds(db) /\ AlbumIds(task[u].pre) = AlbumIds(db)
     /\ IsPermutationOf(task[t].albumIds, AlbumIds(db))
     /\ IsPermutationOf(task[u].albumIds, AlbumIds(db)))
      => /\ task[t].status = "returned"
         /\ task[u].status = "returned"
         /\ Range(ListedOrders) = 0..(Cardinality(db.albums) - 1)

\* C20: if deleteAlbum fails at any step (nonexistent album, nonexistent target, a
\* storage failure mid-sequence) the store is exactly as it was before the call: no
\* photo has changed album, no count has changed, no album was created or removed
C20_FailedDeleteLeavesStore ==
  \A t \in Tasks :
    (Done(t, "deleteAlbum") /\ task[t].status # "returned") => db = task[t].pre

\* C21: after deleteAlbum has moved photos into a target album that had no cover
\* photo, the target album has a cover that references one of its photos
C21_TargetGetsCover ==
  \A t \in Tasks :
    (/\ Returned(t, "deleteAlbum")
     /\ task[t].photoCount > 0
     /\ task[t].targetAlbumId \in AlbumIds(db)
     /\ ~hasCoverPhoto(SelectAlbumById(task[t].pre, task[t].targetAlbumId)))
      => LET target == SelectAlbumById(db, task[t].targetAlbumId)
         IN /\ hasCoverPhoto(target)
            /\ \E p \in PhotosOf(db, target.id) : p.id = target.coverPhotoId

\* C22: during importPhotos a catalog-level failure (a statement fails in the shared
\* persistence layer) aborts the whole batch and is thrown to the caller; it is not
\* returned as a per-file error entry
C22_StorageFailureAbortsBatch ==
  \A t \in Tasks :
    (Done(t, "import") /\ \E k \in 1..Len(task[t].log) : task[t].log[k].reason = "DatabaseError")
      => /\ task[t].status # "returned"
         /\ task[t].log[Len(task[t].log)].reason = "DatabaseError"

\* the storage layer or the album lookup failed for the file of log entry e
CatalogFailure(e) == e.reason \in {"DatabaseError", "AlbumError"}

\* C23: if thumbnail generation fails for a file (which is valid, whose metadata was
\* read and which met no storage failure), the import of that file still succeeds:
\* the photo is persisted without a thumbnail and counted as imported, not as failed
C23_ThumbnailFailureNotFatal ==
  \A t \in Tasks :
    task[t].op = "import" =>
      \A k \in 1..Len(task[t].log) :
        LET e == task[t].log[k]
            file == task[t].files[k]
        IN (~generateThumbnailOk(file) /\ e.valid /\ e.metaOk /\ ~CatalogFailure(e))
             => /\ e.outcome = "imported"
                /\ \E p \in db.photos : p.id = e.photoId /\ p.fileName = file.name /\ ~p.thumbnail
                /\ Done(t, "import") =>
                     task[t].result.importedCount
                       = Cardinality({j \in 1..Len(task[t].log) : task[t].log[j].outcome = "imported"})

\* an import has returned after a file whose thumbnail could not be generated was
\* imported
C23_Witness ==
  \E t \in Tasks :
    /\ Returned(t, "import")
    /\ \E k \in 1..Len(task[t].log) :
         /\ ~generateThumbnailOk(task[t].files[k])
         /\ task[t].log[k].outcome = "imported"
         /\ ~task[t].log[k].thumbOk

C25_EmptyReorderSucceeds ==
  \A t \in Tasks :
    (Done(t, "reorder") /\ Len(task[t].albumIds) = 0)
      => /\ task[t].status = "returned"
         /\ task[t].retval = TRUE
         /\ db = task[t].pre

\* what a successful updateAlbumOrder leaves: the album's display order is newOrder
\* and every other album is as before
OrderSet(t) ==
  /\ task[t].status = "returned"
  /\ task[t].retval = TRUE
  /\ db.albums = {IF a.id = task[t].albumId THEN [a EXCEPT !.displayOrder = task[t].newOrder] ELSE a :
                    a \in task[t].pre.albums}

DatedAlbums(d) == {a \in d.albums : a.datePeriod # UNDATED}
Newest(S) == CHOOSE a \in S : \A b \in S : ~StrLess(a.datePeriod, b.datePeriod)
Oldest(S) == CHOOSE a \in S : \A b \in S : ~StrLess(b.datePeriod, a.datePeriod)

\* a createAlbum call for a dated period has computed the new album's display order
ComputedDated(t) ==
  /\ task[t].op = "createAlbum"
  /\ task[t].pc = "ca_insert" \/ Returned(t, "createAlbum")
  /\ task[t].datePeriod # UNDATED

\* C27: the display order computed for a newly created dated album equals the order
\* of the first existing dated album, scanning most recent period first, whose period
\* is less than the new period; if there is none it is one past the order of the
\* last dated album of the scan (0 when no dated album exists)
C27_InsertedBeforeFirstOlder ==
  \A t \in Tasks :
    ComputedDated(t) =>
      LET dated == DatedAlbums(task[t].pre)
          older == {a \in dated : StrLess(a.datePeriod, task[t].datePeriod)}
      IN task[t].album.displayOrder =
           IF older # {} THEN Newest(older).displayOrder
           ELSE IF dated # {} THEN Oldest(dated).displayOrder + 1
           ELSE 0

\* an album was created between a more recent and an older existing album whose
\* orders differ
C27_Witness ==
  \E t \in Tasks :
    /\ Returned(t, "createAlbum")
    /\ task[t].datePeriod # UNDATED
    /\ Cardinality(DatedAlbums(task[t].pre)) = 2
    /\ \E a, b \in DatedAlbums(task[t].pre) :
         /\ StrLess(a.datePeriod, task[t].datePeriod)
         /\ StrLess(task[t].datePeriod, b.datePeriod)
         /\ a.displayOrder # b.displayOrder

\* the date-period and the name the spec gives an album for a timestamp
PeriodOfTimestamp(photoDate) ==
  IF photoDate.kind = "date"
  THEN DecStr(photoDate.y) \o <<DASH, ZERO + (photoDate.m \div 10), ZERO + (photoDate.m % 10)>>
  ELSE UNDATED
NameOfTimestamp(photoDate) ==
  IF photoDate.kind = "date"
  THEN [text |-> MonthNames[photoDate.m], year |-> DecStr(photoDate.y)]
  ELSE [text |-> "Undated Photos", year |-> <<>>]

\* the call has returned a stored album of the timestamp's period and name
ReturnedAlbumOfTimestamp(t) ==
  /\ task[t].status = "returned"
  /\ task[t].album.datePeriod = PeriodOfTimestamp(task[t].photoDate)
  /\ task[t].album.name = NameOfTimestamp(task[t].photoDate)
  /\ task[t].album.id \in AlbumIds(db)

C29_OrderSurvivesNewSession ==
  \A t \in Tasks :
    Done(t, "session") =>
      /\ task[t].status = "returned"
      /\ task[t].rows = SortAlbums(task[t].pre.albums)

\* C30: initialize() on a fresh DatabaseService resolves true and leaves the service
\* passing the initialization check, so that until close() every execute, get, all
\* and beginTransaction call passes it; a call made while the check does not pass
\* (before initialize(), after close()) fails with DatabaseError
C30_InitializeThenCallsPass ==
  \A t \in Tasks :
    /\ Done(t, "initialize") =>
         /\ task[t].status = "returned"
         /\ (\A u \in Tasks : ~(task[u].op = "close" /\ task[u].pc = "done")) => ensureInitialized(gateway)
    /\ Done(t, "call") =>
         IF task[t].ready THEN task[t].status = "returned"
         ELSE task[t].status = "DatabaseError" /\ task[t].err = "Database not initialized"

\* the operations that run their writes inside a transaction
TransactionOps == {"reorder", "deleteAlbum", "merge"}

\* task t leaves its catch block in this step after rolling its transaction back
RolledBack(t) ==
  /\ task[t].op \in TransactionOps
  /\ task[t].pc = "rollback"
  /\ tx.open
  /\ task'[t].pc = "done"

\* C31: after a reorderAlbums, deleteAlbum or mergeAlbums transaction has been
\* rolled back, neither the in-memory store nor the persisted snapshot that a later
\* initialize() would load contains a write made inside that transaction: both
\* are the store as it was when the transaction began
C31_RollbackLeavesNoWrite ==
  [][\A t \in Tasks : RolledBack(t) => (db' = tx.snap /\ image' = tx.snap)]_vars

\* C32: when two imports into the same album run concurrently, their suspension
\* points interleaved (the count read and its write-back are separate calls), then
\* once both have completed the album's photoCount is the number of its photos
C32_ConcurrentImportsCount ==
  \A t, u \in Tasks :
    (/\ t # u
     /\ Returned(t, "import") /\ Returned(u, "import")
     /\ task[t].result.importedCount = 1 /\ task[u].result.importedCount = 1
     /\ task[t].pre.photos = {} /\ task[u].pre.photos = {}
     /\ Cardinality(db.photos) = 2
     /\ \A p, q \in db.photos : p.albumId = q.albumId)
      => \A a \in db.albums :
           (\E p \in db.photos : p.albumId = a.id) => a.photoCount = CountPhotos(db, a.id)

\* C33: a photo that importPhotos counted as imported is in the store once all
\* concurrent operations have settled, even when a reorder, delete or merge
\* transaction that was open on the shared connection while the photo was inserted
\* is rolled back
C33_ImportedPhotoStays ==
  Quiescent =>
    \A t \in Tasks :
      Returned(t, "import") =>
        \A k \in 1..Len(task[t].log) :
          task[t].log[k].outcome = "imported"
            => \E p \in db.photos : p.fileName = task[t].log[k].name

\* C34: mergeAlbums(sourceId, targetId) fails and leaves all albums and photos
\* unchanged when sourceId = targetId or either id references no existing album: no
\* photo is moved to a nonexistent target, a nonexistent source is not a success
C34_MergeRejectsBadIds ==
  \A t \in Tasks :
    (/\ Done(t, "merge")
     /\ \/ task[t].albumId = task[t].targetAlbumId
        \/ task[t].albumId \notin AlbumIds(task[t].pre)
        \/ task[t].targetAlbumId \notin AlbumIds(task[t].pre))
      => /\ task[t].status # "returned"
         /\ db = task[t].pre

\* C35: for every valid (non-NaN) timestamp, whatever its year, the period that
\* getOrCreateAlbumForDate derives passes createAlbum's date-period validation, so
\* the call returns a stored album of the timestamp's month
C35_ValidTimestampGetsAlbum ==
  \A t \in Tasks :
    (Done(t, "getOrCreate") /\ task[t].photoDate.kind = "date")
      => /\ task[t].status = "returned"
         /\ task[t].album.datePeriod = DatePeriodOf(task[t].photoDate)
         /\ task[t].album.id \in AlbumIds(db)

(***************************************************************************)
(* SpecFrame: importPhotos, createAlbum and reorderAlbums calls on a store *)
(* that holds photos, each awaited before the next                         *)
(***************************************************************************)
MaxFrameOps == 3

InitFrame == InitCommon /\ concurrent = FALSE /\ limit = MaxFrameOps

NextFrame ==
  \E t \in Tasks :
    \/ \E files \in SingleBatches : ImportStart(t, files)
    \/ ImportSteps(t)
    \/ AlbumSteps(t)
    \/ \E p \in PeriodInputs : CreateAlbumStart(t, p, generateNameFromDatePeriod(p))
    \/ \E albumIds \in ReorderInputs : ReorderStart(t, albumIds)
    \/ ReorderUpdate(t)
    \/ TxCommit(t)
    \/ TxRollback(t)

SpecFrame == InitFrame /\ [][NextFrame]_vars

\* the album of before that has the id of album a
Before(before, a) == CHOOSE b \in before.albums : b.id = a.id

\* C36: reorderAlbums changes only the display order of the albums listed in its
\* argument: an album that is not listed keeps its order, and no album's name,
\* period, photoCount or cover and no photo is changed, added or removed
C36_ReorderFrame ==
  \A t \in Tasks :
    task[t].op = "reorder" =>
      /\ db.photos = task[t].pre.photos
      /\ AlbumIds(db) = AlbumIds(task[t].pre)
      /\ \A a \in db.albums :
           /\ [a EXCEPT !.displayOrder = Before(task[t].pre, a).displayOrder] = Before(task[t].pre, a)
           /\ a.id \notin Range(task[t].albumIds) => a = Before(task[t].pre, a)

\* a reorder has returned on a store with a photo, it moved a listed album and
\* another album was not listed
C36_Witness ==
  \E t \in Tasks :
    /\ Returned(t, "reorder")
    /\ db.photos # {}
    /\ \E a \in db.albums : a.id \notin Range(task[t].albumIds)
    /\ \E a \in db.albums :
         a.id \in Range(task[t].albumIds) /\ a.displayOrder # Before(task[t].pre, a).displayOrder

\* C37: createAlbum never changes the display order or any other field of an
\* existing album and changes no photo; the only change to the store is the new row
C37_CreateFrame ==
  \A t \in Tasks :
    task[t].op = "createAlbum" =>
      /\ db.photos = task[t].pre.photos
      /\ task[t].pre.albums \subseteq db.albums
      /\ IF Returned(t, "createAlbum")
         THEN db.albums \ task[t].pre.albums = {task[t].album}
         ELSE db.albums = task[t].pre.albums

\* createAlbum has returned its new album on a store that held an album with a
\* photo, and the new album's position is not after every existing album
C37_Witness ==
  \E t \in Tasks :
    /\ Returned(t, "createAlbum")
    /\ task[t].album \in db.albums
    /\ task[t].pre.photos # {}
    /\ \E b \in task[t].pre.albums : b.displayOrder >= task[t].album.displayOrder

(***************************************************************************)
(* SpecTransaction: importPhotos, reorderAlbums, deleteAlbum and           *)
(* mergeAlbums calls, each awaited before the next                         *)
(***************************************************************************)
MaxTransactionOps == 3

InitTransaction == InitCommon /\ concurrent = FALSE /\ limit = MaxTransactionOps

NextTransaction ==
  \E t \in Tasks :
    \/ \E files \in SingleBatches : ImportStart(t, files)
    \/ ImportSteps(t)
    \/ AlbumSteps(t)
    \/ \E albumIds \in ReorderInputs : ReorderStart(t, albumIds)
    \/ ReorderUpdate(t)
    \/ \E albumId \in IdInputs, targetAlbumId \in IdInputs : DeleteStart(t, albumId, targetAlbumId)
    \/ DelBegin(t) \/ DelMove(t) \/ DelDelete(t)
    \/ \E sourceAlbumId \in IdInputs, targetAlbumId \in IdInputs : MergeStart(t, sourceAlbumId, targetAlbumId)
    \/ MergeSteps(t)

SpecTransaction == InitTransaction /\ [][NextTransaction]_vars

\* the positions at which a call awaits the database gateway (execute, get, all,
\* commit, rollback)
DatabaseSteps ==
  {"reo_update", "del_move", "del_delete", "upd_count", "upd_getalbum", "upd_setcount",
   "mrg_move", "mrg_gettarget", "mrg_selectcover", "mrg_covergetalbum", "mrg_setcover",
   "mrg_delete", "commit", "rollback"}

\* the positions at which a call awaits an external collaborator: metadata
\* extraction (reads the file) and thumbnail generation
ExternalSteps == {"imp_extract", "imp_thumb"}

\* C38: no operation that opens a transaction awaits an external collaborator
\* (metadata extraction, thumbnail generation, file read) between begin and
\* commit/rollback: while its transaction is open it awaits database calls only
C38_NoExternalAwaitInTransaction ==
  \A t \in Tasks :
    (task[t].op \in TransactionOps /\ tx.open)
      => /\ task[t].pc \in DatabaseSteps
         /\ task[t].pc \notin ExternalSteps

\* a transaction that has written is about to commit, on a store whose photo was
\* imported through the external collaborators
C38_Witness ==
  \E t \in Tasks :
    /\ task[t].op \in TransactionOps
    /\ tx.open
    /\ task[t].pc = "commit"
    /\ db # tx.snap
    /\ db.photos # {}

(***************************************************************************)
(* SpecRecompute: importPhotos, deletePhoto, updateAlbumPhotoCount and     *)
(* updateAlbumCover calls, each awaited before the next                    *)
(***************************************************************************)
MaxRecomputeOps == 4

InitRecompute == InitCommon /\ concurrent = FALSE /\ limit = MaxRecomputeOps

NextRecompute ==
  \E t \in Tasks :
    \/ \E files \in SingleBatches : ImportStart(t, files)
    \/ ImportSteps(t)
    \/ AlbumSteps(t)
    \/ \E photoId \in PhotoIdInputs : DeletePhotoStart(t, photoId)
    \/ DeletePhotoDelete(t)
    \/ \E albumId \in IdInputs : UpdateAlbumPhotoCountStart(t, albumId)
    \/ UpcCount(t) \/ UpcGetAlbum(t) \/ UpcSetCount(t)
    \/ \E albumId \in IdInputs : UpdateAlbumCoverStart(t, albumId)
    \/ UacSelect(t) \/ UacGetAlbum(t) \/ UacSetCover(t)

SpecRecompute == InitRecompute /\ [][NextRecompute]_vars

RecomputeOps == {"updateAlbumPhotoCount", "updateAlbumCover"}

\* C39: the recompute helpers are idempotent: a photo-count recompute (or a cover
\* auto-select) called a second time in a row on the same album, with no change in
\* between, leaves the store as the first call left it
C39_RecomputeIdempotent ==
  \A t \in Tasks :
    (task[t].op \in RecomputeOps /\ task[t].pc = "done" /\ task[t].again)
      => db = task[t].pre

\* the second of two photo-count recomputes in a row has returned for an album
\* that lost a photo to deletePhoto, so that the first one changed the stored count
C39_Witness ==
  \E t \in Tasks :
    /\ Returned(t, "updateAlbumPhotoCount")
    /\ task[t].again
    /\ db.photoSeq > Cardinality(db.photos)
    /\ \E a \in db.albums :
         a.id = task[t].albumId /\ a.photoCount = 0 /\ CountPhotos(db, a.id) = 0

====
